---- MODULE Spec2Model ----
(***************************************************************************)
(* Model of the eclaim download core: the history store (history/manager.py)*)
(* with its backup / temp-file / replace persistence, and the per-run state *)
(* machine of the REP and STM downloaders (downloaders/base.py, rep.py,     *)
(* stm.py) driven by the CLI entry points (cli/download_rep.py,             *)
(* cli/download_stm.py).                                                    *)
(***************************************************************************)
EXTENDS Integers, Sequences, FiniteSets, TLC

VARIABLES
    live,       \* history file name -> content of the live history file
    backup,     \* history file name -> content of the .json.backup sibling
    tmp,        \* history file name -> content of the .json.tmp sibling
    lock,       \* holder of HistoryManager._lock, or NoThread
    sop,        \* thread -> the HistoryManager call it is executing
    acked,      \* add_record calls that returned normally: {[dtype, filename]}
    deleted,    \* delete_record calls ever started: {[dtype, filename]}
    ops,        \* number of store calls started directly by threads
    dl,         \* the downloader: run / download_all / download_file position
    progress,   \* BaseDownloader._progress
    dest,       \* while download_file runs: size of the file at file_path (or NoFile)
    seen,       \* number of links discovery has returned over all runs
    runs,       \* number of CLI runs started
    call,       \* a method of a downloader called on its own: input and result
    sink,       \* the LogStreamer: its log file, its lock, the write calls under way
    cfg         \* the SettingsManager: settings file, environment, _settings

vars == <<live, backup, tmp, lock, sop, acked, deleted, ops, dl, progress, dest,
          seen, runs, call, sink, cfg>>

storeVars == <<live, backup, tmp, lock, sop, acked, deleted, ops>>
runVars == <<dl, progress, dest, seen, runs, call, sink, cfg>>

\* no LogStreamer, no SettingsManager
NoSink == [file |-> <<>>]
NoCfg == [file |-> "absent"]

----------------------------------------------------------------------------
(* Bounds of the model *)

MaxOps == 3
MaxLinks == 3
MaxRuns == 2

(* Program constants *)

max_retries == 2
MinFileSize == 100
HtmlMinSize == 1000

----------------------------------------------------------------------------
(* Values *)

\* no method is being called on its own
NoCall == [fn |-> "none"]

Threads == {"main", "bg"}
NoThread == "none"

\* DownloadType (types.py)
DownloadTypes == {"REP", "STM", "SMT"}

\* The two history files of a HistoryManager
Files == {"rep", "stm"}

Filenames == {"f1", "f2", "f3"}

\* Filenames the hosting process's threads pass to the store directly
StoreFilenames == {"f1", "f2"}

\* A file that does not exist, and a file cut short (not valid JSON)
Absent == [kind |-> "absent", last_run |-> FALSE, downloads |-> <<>>]
PartialFile == [kind |-> "partial", last_run |-> FALSE, downloads |-> <<>>]

\* json document {'last_run': ..., 'downloads': [...]}
Doc(lastRun, downloads) ==
    [kind |-> "doc", last_run |-> lastRun, downloads |-> downloads]

EmptyHistory == Doc(FALSE, <<>>)

Record(filename) == [filename |-> filename]

----------------------------------------------------------------------------
(* HistoryManager: pure parts *)

_get_history_fileMutAllRep(download_type) == "rep"

\* _get_history_file: STM has its own file, every other type uses the REP file
_get_history_file(download_type) ==
    IF download_type = "STM" THEN "stm" ELSE "rep"

\* load, given the content of the live file: a missing or unparsable file
\* reads as the empty history
LoadContent(content) ==
    IF content.kind = "doc" THEN content ELSE EmptyHistory

load(download_type) == LoadContent(live[_get_history_file(download_type)])

HasFilename(downloads, filename) ==
    \E i \in 1..Len(downloads) : downloads[i].filename = filename

\* The claims' own reading of the store, written out over the files so that it
\* does not move with the operators it is compared to: the history file of a
\* family, and whether a filename is recorded in the family's live document
FamilyFile(download_type) ==
    CASE download_type = "STM" -> "stm"
      [] download_type = "REP" -> "rep"
      [] OTHER -> "rep"

InHistory(download_type, filename) ==
    /\ live[FamilyFile(download_type)].kind = "doc"
    /\ \E i \in 1..Len(live[FamilyFile(download_type)].downloads) :
          live[FamilyFile(download_type)].downloads[i].filename = filename

\* the number of records in the family's live document
RecordCount(download_type) ==
    IF live[FamilyFile(download_type)].kind = "doc"
    THEN Len(live[FamilyFile(download_type)].downloads)
    ELSE 0

existsMutNever(filename, download_type) == FALSE

\* exists
exists(filename, download_type) ==
    HasFilename(load(download_type).downloads, filename)

RECURSIVE WithoutFilename(_, _)
WithoutFilename(downloads, filename) ==
    IF downloads = <<>> THEN <<>>
    ELSE IF Head(downloads).filename = filename
         THEN WithoutFilename(Tail(downloads), filename)
         ELSE <<Head(downloads)>> \o WithoutFilename(Tail(downloads), filename)

AppendedMutFresh(history, filename) == Doc(TRUE, <<Record(filename)>>)

AppendedMutDrop(history, filename) == Doc(TRUE, history.downloads)

\* add_record: the document with the new record appended and last_run set
Appended(history, filename) ==
    Doc(TRUE, Append(history.downloads, Record(filename)))

\* a delete_record that drops the first record of that filename only
RemovedMutFirst(history, filename) ==
    LET first == CHOOSE i \in 1..(Len(history.downloads) + 1) :
                    /\ i <= Len(history.downloads) => history.downloads[i].filename = filename
                    /\ \A j \in 1..(i - 1) : history.downloads[j].filename # filename
    IN Doc(history.last_run,
           SubSeq(history.downloads, 1, first - 1)
              \o SubSeq(history.downloads, first + 1, Len(history.downloads)))

\* delete_record: the document without the records of that filename
Removed(history, filename) ==
    Doc(history.last_run, WithoutFilename(history.downloads, filename))

----------------------------------------------------------------------------
(* HistoryManager: calls in progress *)

IdleOp ==
    [pc |-> "idle", kind |-> "none", dtype |-> "REP", fname |-> "f1",
     data |-> Absent, pre |-> Absent, failed |-> "no", ret |-> "none"]

FileOfOp(t) == _get_history_file(sop[t].dtype)

CallAddMutDefaultType(t, result_type, filename) ==
    sop' = [sop EXCEPT ![t] =
              [IdleOp EXCEPT !.pc = "save", !.kind = "add", !.dtype = "REP",
                             !.fname = filename,
                             !.data = Appended(load("REP"), filename)]]

\* add_record up to its call of save: load outside the lock, append
CallAdd(t, result_type, filename) ==
    sop' = [sop EXCEPT ![t] =
              [IdleOp EXCEPT !.pc = "save", !.kind = "add", !.dtype = result_type,
                             !.fname = filename,
                             !.data = Appended(load(result_type), filename)]]

\* delete_record up to its call of save (or its return False)
CallDelete(t, download_type, filename) ==
    LET history == load(download_type)
        kept == Removed(history, filename)
    IN sop' = [sop EXCEPT ![t] =
                 IF Len(kept.downloads) < Len(history.downloads)
                 THEN [IdleOp EXCEPT !.pc = "save", !.kind = "delete",
                                     !.dtype = download_type, !.fname = filename,
                                     !.data = kept]
                 ELSE [IdleOp EXCEPT !.pc = "done", !.kind = "delete",
                                     !.dtype = download_type, !.fname = filename,
                                     !.ret = "false"]]

\* save(None, download_type) up to the lock: data = load(download_type)
CallSave(t, download_type) ==
    sop' = [sop EXCEPT ![t] =
              [IdleOp EXCEPT !.pc = "save", !.kind = "save", !.dtype = download_type,
                             !.data = load(download_type)]]

\* A thread of the hosting process calls the store directly
StartAdd(t) ==
    /\ sop[t].pc = "idle"
    /\ ops < MaxOps
    /\ \E d \in DownloadTypes, f \in StoreFilenames : CallAdd(t, d, f)
    /\ ops' = ops + 1
    /\ UNCHANGED <<live, backup, tmp, lock, acked, deleted>>

StartDelete(t) ==
    /\ sop[t].pc = "idle"
    /\ ops < MaxOps
    /\ \E d \in DownloadTypes, f \in StoreFilenames :
          /\ CallDelete(t, d, f)
          /\ deleted' = deleted \cup {[dtype |-> d, filename |-> f]}
    /\ ops' = ops + 1
    /\ UNCHANGED <<live, backup, tmp, lock, acked>>

StartSave(t) ==
    /\ sop[t].pc = "idle"
    /\ ops < MaxOps
    /\ \E d \in DownloadTypes : CallSave(t, d)
    /\ ops' = ops + 1
    /\ UNCHANGED <<live, backup, tmp, lock, acked, deleted>>

SaveBackupMutNoCopy(t) ==
    LET f == FileOfOp(t) IN
    /\ sop[t].pc = "save"
    /\ lock = NoThread
    /\ lock' = t
    /\ backup' = backup
    /\ sop' = [sop EXCEPT ![t].pc = "write", ![t].pre = live[f]]
    /\ UNCHANGED <<live, tmp, acked, deleted, ops>>

\* save: enter `with self._lock`, copy the live file to the backup if it exists.
\* copy2 can fail before it opened the backup or after it wrote part of it; the
\* copy is outside the try, so the error leaves save at once.
SaveBackup(t) ==
    LET f == FileOfOp(t) IN
    /\ sop[t].pc = "save"
    /\ lock = NoThread
    /\ lock' = t
    /\ IF live[f].kind = "absent"
       THEN /\ backup' = backup
            /\ sop' = [sop EXCEPT ![t].pc = "write", ![t].pre = live[f]]
       ELSE \/ /\ backup' = [backup EXCEPT ![f] = live[f]]
               /\ sop' = [sop EXCEPT ![t].pc = "write", ![t].pre = live[f]]
            \/ /\ \E b \in {backup[f], PartialFile} :
                     backup' = [backup EXCEPT ![f] = b]
               /\ sop' = [sop EXCEPT ![t].pc = "raise", ![t].pre = live[f],
                                     ![t].failed = "backup"]
    /\ UNCHANGED <<live, tmp, acked, deleted, ops>>

\* save: open the temp file and json.dump(data). The write can fail at open
\* (temp file untouched) or part way (temp file cut short).
WriteTemp(t) ==
    LET f == FileOfOp(t) IN
    /\ sop[t].pc = "write"
    /\ \/ /\ tmp' = [tmp EXCEPT ![f] = sop[t].data]
          /\ sop' = [sop EXCEPT ![t].pc = "replace"]
       \/ /\ \E c \in {tmp[f], PartialFile} : tmp' = [tmp EXCEPT ![f] = c]
          /\ sop' = [sop EXCEPT ![t].pc = "except", ![t].failed = "write"]
    /\ UNCHANGED <<live, backup, lock, acked, deleted, ops>>

ReplaceMutCopy(t) ==
    LET f == FileOfOp(t) IN
    /\ sop[t].pc = "replace"
    /\ \/ /\ live' = [live EXCEPT ![f] = tmp[f]]
          /\ tmp' = [tmp EXCEPT ![f] = Absent]
          /\ sop' = [sop EXCEPT ![t].pc = "release"]
       \/ /\ live' = [live EXCEPT ![f] = PartialFile]
          /\ tmp' = tmp
          /\ sop' = [sop EXCEPT ![t].pc = "except", ![t].failed = "replace"]
    /\ UNCHANGED <<backup, lock, acked, deleted, ops>>

\* save: temp_file.replace(history_file), atomic: it happens or it does not
Replace(t) ==
    LET f == FileOfOp(t) IN
    /\ sop[t].pc = "replace"
    /\ \/ /\ live' = [live EXCEPT ![f] = tmp[f]]
          /\ tmp' = [tmp EXCEPT ![f] = Absent]
          /\ sop' = [sop EXCEPT ![t].pc = "release"]
       \/ /\ UNCHANGED <<live, tmp>>
          /\ sop' = [sop EXCEPT ![t].pc = "except", ![t].failed = "replace"]
    /\ UNCHANGED <<backup, lock, acked, deleted, ops>>

ExceptMutSwallow(t) ==
    LET f == FileOfOp(t) IN
    /\ sop[t].pc = "except"
    /\ tmp' = [tmp EXCEPT ![f] = Absent]
    /\ sop' = [sop EXCEPT ![t].pc = "release"]
    /\ UNCHANGED <<live, backup, lock, acked, deleted, ops>>

\* save: except Exception: unlink the temp file if it exists, re-raise
Except(t) ==
    LET f == FileOfOp(t) IN
    /\ sop[t].pc = "except"
    /\ tmp' = [tmp EXCEPT ![f] = Absent]
    /\ sop' = [sop EXCEPT ![t].pc = "raise"]
    /\ UNCHANGED <<live, backup, lock, acked, deleted, ops>>

\* the exception leaves the with block (lock released) and save, and with it
\* add_record / delete_record, to the caller
Raise(t) ==
    /\ sop[t].pc = "raise"
    /\ lock' = NoThread
    /\ sop' = [sop EXCEPT ![t].pc = "done", ![t].ret = "raised"]
    /\ UNCHANGED <<live, backup, tmp, acked, deleted, ops>>

ReleaseMutKeepLock(t) ==
    /\ sop[t].pc = "release"
    /\ lock' = lock
    /\ sop' = [sop EXCEPT ![t].pc = "done", ![t].ret = "ok"]
    /\ acked' = acked
    /\ UNCHANGED <<live, backup, tmp, deleted, ops>>

\* save returns: the with block ends (lock released); delete_record returns True
Release(t) ==
    /\ sop[t].pc = "release"
    /\ lock' = NoThread
    /\ sop' = [sop EXCEPT ![t].pc = "done",
                          ![t].ret = IF sop[t].kind = "delete" THEN "true" ELSE "ok"]
    /\ acked' = IF sop[t].kind = "add"
                THEN acked \cup {[dtype |-> sop[t].dtype, filename |-> sop[t].fname]}
                ELSE acked
    /\ UNCHANGED <<live, backup, tmp, deleted, ops>>

\* the caller of the store has its answer
Return(t) ==
    /\ sop[t].pc = "done"
    /\ sop' = [sop EXCEPT ![t] = IdleOp]
    /\ UNCHANGED <<live, backup, tmp, lock, acked, deleted, ops>>

SaveStep(t) ==
    \/ SaveBackup(t)
    \/ WriteTemp(t)
    \/ Replace(t)
    \/ Except(t)
    \/ Raise(t)
    \/ Release(t)

----------------------------------------------------------------------------
(* Downloaders: values *)

\* the two downloaders; download_type is the variant's own name
Variants == {"REP", "STM"}

\* body sizes a portal response can have
Sizes == {99, 100, 1000}

NoFile == -1

\* DownloadResult.error is None
NoError == "<none>"

\* str(e) of an exception of the requests library or the file system: its
\* text, empty for an exception raised without arguments. No exception of
\* theirs has the text "skipped".
NetMsgs == {"timed out", ""}

\* link.metadata['download_params'] of an STM link: all seven, none, or some
\* of the required ones missing
ParamKinds == {"full", "none", "partial"}

\* What one transfer attempt meets
\*   neterr: the request or raise_for_status raises
\*   broken: the REP stream breaks after part of the body was written
\*   body:   a complete response
Outcomes ==
    [kind : {"neterr"}, msg : NetMsgs, html : {FALSE}, size : {0}]
      \cup [kind : {"broken"}, msg : {"timed out"}, html : {FALSE}, size : Sizes]
      \cup [kind : {"body"}, msg : {NoError}, html : BOOLEAN, size : Sizes]

\* link.metadata is read by download_file alone, so the model draws it there.
\* The links of a run come from get_download_links: an STM link built by
\* _parse_statement_list always carries all seven parameters. A caller of
\* download_file itself passes the link, and with it the metadata, it likes.
ParamsOf(variant) == IF call.fn = "download_file" THEN {call.params} ELSE {"full"}

Link(filename) == [filename |-> filename]

DiscoveredLinks == {Link(f) : f \in Filenames}

RECURSIVE SeqsUpTo(_, _)
SeqsUpTo(S, n) ==
    IF n = 0 THEN {<<>>}
    ELSE LET shorter == SeqsUpTo(S, n - 1)
         IN shorter \cup {Append(q, x) : q \in {r \in shorter : Len(r) = n - 1}, x \in S}

LinkLists(n) == SeqsUpTo(DiscoveredLinks, n)

\* what can lie at a link's file_path before download_file is called for it
PathContents == {NoFile, 1000}

NoResult ==
    [success |-> FALSE, filename |-> "", file_size |-> 0, error |-> NoError,
     attempts |-> 0]

Result(success, filename, file_size, error, attempts) ==
    [success |-> success, filename |-> filename, file_size |-> file_size,
     error |-> error, attempts |-> attempts]

NoRunResult == [kind |-> "none"]

LoginFailed == [kind |-> "error", success |-> FALSE, error |-> "Login failed"]

Counts(downloaded, skipped, errors, total) ==
    [kind |-> "counts", success |-> TRUE, downloaded |-> downloaded,
     skipped |-> skipped, errors |-> errors, total |-> total]

\* What discovery returned to this run, kept for the run summary's statement
\* while the run is one of distinct filenames whose fetches all succeed: n links,
\* k of them with a filename in the family's history at that moment
NoPlan == [clean |-> FALSE, n |-> 0, k |-> 0]

\* The line download_all logs when a link is done: "Downloaded: <filename>" at
\* level success, or "Failed: <filename>" at level error
NoLog == [msg |-> "", level |-> ""]
OutcomeLog(success) ==
    IF success THEN [msg |-> "Downloaded", level |-> "success"]
    ELSE [msg |-> "Failed", level |-> "error"]

\* DownloadProgress()
NewProgress ==
    [total |-> 0, downloaded |-> 0, skipped |-> 0, errors |-> 0,
     current_file |-> "", is_running |-> FALSE]

\* a downloader as constructed by main: variant REPDownloader or STMDownloader,
\* history a HistoryManager or None (--no-history)
IdleDl(variant, history) ==
    [pc |-> "idle", variant |-> variant, history |-> history, links |-> <<>>,
     auth |-> FALSE, plan |-> NoPlan, base |-> 0, params |-> "full", attempt |-> 0,
     slept |-> 0, e |-> NoError, log |-> NoLog,
     file |-> NoResult, results |-> <<>>, ret |-> NoRunResult]

\* dl.links is what `for link in links` has still to yield, current link first
CurLink == Head(dl.links)

\* Python truth value of DownloadResult.error
Truthy(error) == error # NoError /\ error # ""

CountOf(results, P(_)) == Cardinality({i \in 1..Len(results) : P(results[i])})

----------------------------------------------------------------------------
(* login *)

\* Pieces of text the login check looks at, in the spellings the portal may
\* use, and str.lower() on them
UrlParts == {"login", "LOGIN", "main"}
BodyParts == {"error", "Error", "welcome"}

Lower(part) ==
    CASE part \in {"login", "LOGIN"} -> "login"
      [] part \in {"error", "Error"} -> "error"
      [] OTHER -> part

\* `marker in text.lower()` for a text made of such pieces
ContainsLower(text, marker) == \E i \in 1..Len(text) : Lower(text[i]) = marker

Texts(parts) ==
    {<<>>} \cup {<<a>> : a \in parts} \cup {<<a, b>> : a \in parts, b \in parts}

\* What one login meets: a RequestException in the priming GET or in the POST,
\* or the POST's final URL (redirects followed) and response text
LoginEnvs ==
    [get_raises : BOOLEAN, post_raises : BOOLEAN,
     url : Texts(UrlParts), text : Texts(BodyParts)]

Returned(value, logs) == [kind |-> "return", value |-> value, logs |-> logs]

loginMutEither(env) ==
    IF env.get_raises \/ env.post_raises
    THEN Returned(FALSE, <<"info", "error">>)
    ELSE IF ContainsLower(env.url, "login") \/ ContainsLower(env.text, "error")
         THEN Returned(FALSE, <<"info", "error">>)
         ELSE Returned(TRUE, <<"info", "success">>)

\* login of either downloader: what it returns and the levels of its log lines
login(env) ==
    IF env.get_raises \/ env.post_raises
    THEN Returned(FALSE, <<"info", "error">>)
    ELSE IF ContainsLower(env.url, "login") /\ ContainsLower(env.text, "error")
         THEN Returned(FALSE, <<"info", "error">>)
         ELSE Returned(TRUE, <<"info", "success">>)

----------------------------------------------------------------------------
(* REP discovery: file type of a filename *)

\* Pieces a REP filename is made of, and str.upper() on them
NameParts == {"_IP_", "_ip_", "_OP_", "_ORF_", "APPEAL", "NHSO", "rep"}

Upper(part) ==
    CASE part = "_ip_" -> "_IP_"
      [] part = "rep" -> "REP"
      [] OTHER -> part

\* `marker in filename.upper()`
ContainsUpper(name, marker) == \E i \in 1..Len(name) : Upper(name[i]) = marker

MaxNameParts == 3

RECURSIVE NamesUpTo(_)
NamesUpTo(n) ==
    IF n = 0 THEN {<<>>}
    ELSE LET shorter == NamesUpTo(n - 1)
         IN shorter \cup {Append(name, part) : name \in shorter, part \in NameParts}

\* REPDownloader._detect_file_type (None is "None")
_detect_file_type(name) ==
    IF ContainsUpper(name, "_OP_") THEN "OP"
    ELSE IF ContainsUpper(name, "_IP_")
         THEN IF ContainsUpper(name, "APPEAL")
              THEN IF ContainsUpper(name, "NHSO") THEN "IP_APPEAL_NHSO"
                   ELSE "IP_APPEAL"
              ELSE "IP"
         ELSE IF ContainsUpper(name, "_ORF_") THEN "ORF"
              ELSE "None"

----------------------------------------------------------------------------
(* Discovery: get_download_links *)

MaxSchemes == 2
MaxRows == 3

\* REPDownloader.SCHEME_URLS has an entry for every member of Scheme
SCHEME_URLS == {"ucs", "ofc", "sss", "lgo", "nhs", "bkk", "bmt", "srt"}

\* self.schemes of a REPDownloader configured with n schemes
schemes(n) == SubSeq(<<"ucs", "ofc", "sss">>, 1, n)

NoHref == ""
NoName == ""

Hrefs == {"a", "b"}

\* filenames _extract_filename can resolve for an anchor of a validation page
PageFilenames == {"f1", "f2"}

\* _extract_filename with the `file` parameter looked at before `filename`
_extract_filenameMutFileFirst(a) ==
    IF a.fn # "<None>" THEN a.fn
    ELSE IF a.file # "<None>" THEN a.file
    ELSE IF a.filename # "<None>"
         THEN (IF a.filename = "m.ecd" THEN "m.xls" ELSE a.filename)
    ELSE "<None>"

\* REPDownloader._extract_filename(href, link_text, row) for a "download
\* excel" anchor a: a.fn, a.filename, a.file are the values of the query
\* parameters of its href ("<None>": not among them), a.rep the href of the
\* first anchor of the row whose text matches rep_eclaim ("<None>": no such
\* anchor, "": it has no href), a.text the anchor's text. None is "<None>".
_extract_filename(a) ==
    LET \* str.replace('.ecd', '.xls')
        replaced(name) ==
            CASE name = "m.ecd" -> "m.xls"
              [] name = "r.ecd" -> "r.xls"
              [] OTHER -> name
        \* rep_href.split('/')[-1]
        last(href) ==
            CASE href = "/d/r.ecd" -> "r.ecd"
              [] href = "/d/" -> ""
              [] OTHER -> href
        \* link_text.strip()
        text == CASE a.text = " Download Excel T.XLS " -> "Download Excel T.XLS"
                  [] OTHER -> a.text
        \* text.lower()
        lower == CASE text = "Download Excel T.XLS" -> "download excel t.xls"
                   [] OTHER -> text
    IN IF a.fn # "<None>" THEN a.fn
       ELSE IF a.filename # "<None>" THEN replaced(a.filename)
       ELSE IF a.file # "<None>" THEN a.file
       ELSE IF a.rep \notin {"<None>", ""} THEN replaced(last(a.rep))
       ELSE IF text # "" /\ lower \in {"download excel t.xls"} THEN text
       ELSE "<None>"

\* a "download excel" anchor of a validation page: its href, and the filename
\* _extract_filename resolves for it (NoName when none)
Anchors ==
    {[href |-> NoHref, name |-> NoName], [href |-> "a", name |-> NoName],
     [href |-> "a", name |-> "f2"]}
        \cup {[href |-> h, name |-> "f1"] : h \in Hrefs}

\* what the validation page GET of one scheme comes to: a RequestException
\* (ok false), or a page with its n anchors in document order
Fetches(n) ==
    (IF n = 0 THEN {[ok |-> FALSE, page |-> <<>>]} ELSE {})
        \cup {[ok |-> TRUE, page |-> page] : page \in [1..n -> Anchors]}

\* the answers to the GETs of n schemes, their pages holding at most rows
\* anchors together
RECURSIVE FetchSeqs(_, _)
FetchSeqs(n, rows) ==
    IF n = 0 THEN {<<>>}
    ELSE UNION {{Append(fetches, fetch) : fetches \in FetchSeqs(n - 1, rows - k),
                                          fetch \in Fetches(k)} : k \in 0..rows}

\* a DownloadLink as discovery creates it
DownloadLink(url, filename, scheme) ==
    [url |-> url, filename |-> filename, scheme |-> scheme]

\* the exception leaves the method
Propagated(e, logs) == [kind |-> "raise", value |-> e, logs |-> logs]

\* the loop of _parse_download_links without its seen_filenames test
RECURSIVE _parse_download_linksMutNoSeen(_, _)
_parse_download_linksMutNoSeen(page, scheme) ==
    IF page = <<>> THEN <<>>
    ELSE LET links == _parse_download_linksMutNoSeen(SubSeq(page, 1, Len(page) - 1), scheme)
             excel_link == page[Len(page)]
         IN IF excel_link.href = NoHref \/ excel_link.name = NoName
            THEN links
            ELSE Append(links, DownloadLink(excel_link.href, excel_link.name, scheme))

\* REPDownloader._parse_download_links: the links of one page, anchors taken
\* in document order
RECURSIVE _parse_download_links(_, _)
_parse_download_links(page, scheme) ==
    IF page = <<>> THEN <<>>
    ELSE LET links == _parse_download_links(SubSeq(page, 1, Len(page) - 1), scheme)
             seen_filenames == {links[i].filename : i \in 1..Len(links)}
             excel_link == page[Len(page)]
         IN IF excel_link.href = NoHref
            THEN links
            ELSE IF excel_link.name = NoName \/ excel_link.name \in seen_filenames
                 THEN links
                 ELSE Append(links, DownloadLink(excel_link.href, excel_link.name, scheme))

\* _get_scheme_links letting the RequestException of its GET leave
_get_scheme_linksMutRaise(scheme, fetch) ==
    IF scheme \notin SCHEME_URLS THEN Returned(<<>>, <<"warning">>)
    ELSE IF ~fetch.ok THEN Propagated("RequestException", <<"info">>)
         ELSE Returned(_parse_download_links(fetch.page, scheme), <<"info">>)

\* REPDownloader._get_scheme_links
_get_scheme_links(scheme, fetch) ==
    IF scheme \notin SCHEME_URLS THEN Returned(<<>>, <<"warning">>)
    ELSE IF ~fetch.ok THEN Returned(<<>>, <<"info", "error">>)
         ELSE Returned(_parse_download_links(fetch.page, scheme), <<"info">>)

\* REPDownloader.get_download_links over self.schemes, fetches[i] being what
\* the GET for the i-th scheme comes to
RECURSIVE REP_get_download_links(_, _)
REP_get_download_links(configured, fetches) ==
    IF configured = <<>> THEN Returned(<<>>, <<>>)
    ELSE LET n == Len(configured)
             before == REP_get_download_links(SubSeq(configured, 1, n - 1),
                                              SubSeq(fetches, 1, n - 1))
             scheme_links == _get_scheme_links(configured[n], fetches[n])
         IN IF before.kind = "raise" THEN before
            ELSE IF scheme_links.kind = "raise"
                 THEN Propagated(scheme_links.value, before.logs \o scheme_links.logs)
                 ELSE Returned(before.value \o scheme_links.value,
                               before.logs \o scheme_links.logs \o <<"info">>)

\* what a REP discovery meets: the configured schemes and the answer to each
\* scheme's GET
RepListings ==
    UNION {[configured : {schemes(n)}, fetches : FetchSeqs(n, MaxRows)] :
                n \in 1..MaxSchemes}

\* a row of the statement list: fewer than 9 cells ("short"), no anchor in the
\* ninth cell ("nolink"), an onclick that is not downloadBill with 7 quoted
\* arguments ("nomatch"), a row whose parsing raises ("raise"), or a matching
\* onclick with its document_no
DocumentNos == {"d1", "d2"}

Rows ==
    {[kind |-> k, document_no |-> ""] : k \in {"short", "nolink", "nomatch", "raise"}}
        \cup {[kind |-> "match", document_no |-> d] : d \in DocumentNos}

\* f"STM_{document_no}.xls"
StmFilename(document_no) ==
    CASE document_no = "d1" -> "STM_d1.xls"
      [] document_no = "d2" -> "STM_d2.xls"

\* STMDownloader._parse_statement_list: the links and the log lines' levels
RECURSIVE _parse_statement_list(_)
_parse_statement_list(rows) ==
    IF rows = <<>> THEN Returned(<<>>, <<>>)
    ELSE LET before == _parse_statement_list(SubSeq(rows, 1, Len(rows) - 1))
             row == rows[Len(rows)]
         IN CASE row.kind = "short" -> before
              [] row.kind = "nolink" -> before
              [] row.kind = "nomatch" -> before
              [] row.kind = "raise" ->
                    Returned(before.value, Append(before.logs, "warning"))
              [] OTHER ->
                    Returned(Append(before.value,
                                    DownloadLink("DOWNLOAD_URL",
                                                 StmFilename(row.document_no), "ucs")),
                             before.logs)

\* what an STM discovery meets: whether the GET of the list page and the GET
\* of the AJAX view raise a RequestException, and the rows of the view
StmListings ==
    [list_raises : BOOLEAN, view_raises : BOOLEAN, rows : SeqsUpTo(Rows, MaxRows)]

\* STMDownloader.get_download_links, no month configured
STM_get_download_links(listing) ==
    IF listing.list_raises \/ listing.view_raises
    THEN Returned(<<>>, <<"info", "info", "error">>)
    ELSE LET links == _parse_statement_list(listing.rows)
         IN Returned(links.value, <<"info", "info">> \o links.logs \o <<"info">>)

get_download_links(variant, listing) ==
    IF variant = "REP"
    THEN REP_get_download_links(listing.configured, listing.fetches)
    ELSE STM_get_download_links(listing)

----------------------------------------------------------------------------
(* CLI main and run *)

\* main builds the downloader (with a HistoryManager unless --no-history) and
\* calls run, which calls login.
\* Every run of a behaviour uses the same command line.
StartRun ==
    /\ dl.pc \in {"idle", "exited", "raised"}
    /\ sop["main"].pc = "idle"
    /\ runs < MaxRuns
    /\ runs' = runs + 1
    /\ progress' = NewProgress
    /\ \E value \in {login(env).value : env \in LoginEnvs} :
          dl' = [IdleDl(dl.variant, dl.history) EXCEPT !.pc = "auth",
                                                       !.auth = value]
    /\ UNCHANGED <<storeVars, dest, seen>>

AfterLoginMutGoOn ==
    /\ dl.pc = "auth"
    /\ dl' = [dl EXCEPT !.pc = "discover", !.auth = FALSE]
    /\ UNCHANGED <<storeVars, progress, dest, seen, runs>>

\* run: `if not self.login(...)` returns the login failure at once
AfterLogin ==
    /\ dl.pc = "auth"
    /\ dl' = IF dl.auth
             THEN [dl EXCEPT !.pc = "discover", !.auth = FALSE]
             ELSE [dl EXCEPT !.pc = "returned", !.ret = LoginFailed]
    /\ UNCHANGED <<storeVars, progress, dest, seen, runs>>

Distinct(links) ==
    \A i, j \in 1..Len(links) : links[i].filename = links[j].filename => i = j

PlanOf(links) ==
    IF Distinct(links)
    THEN [clean |-> TRUE,
          n |-> Len(links),
          k |-> IF dl.history
                THEN Cardinality({i \in 1..Len(links) :
                                    InHistory(dl.variant, links[i].filename)})
                ELSE 0]
    ELSE NoPlan

\* run: get_download_links; no links ends the run with zero counts, otherwise
\* download_all starts: fresh progress, first link becomes current
\* run once get_download_links has returned links
Discovered(links) ==
    IF links = <<>>
    THEN /\ dl' = [dl EXCEPT !.pc = "returned", !.ret = Counts(0, 0, 0, 0)]
         /\ progress' = progress
         /\ dest' = dest
    ELSE /\ dl' = [dl EXCEPT !.pc = "file", !.links = links,
                             !.plan = PlanOf(links),
                             !.base = IF dl.history
                                      THEN RecordCount(dl.variant)
                                      ELSE 0]
         /\ progress' = [NewProgress EXCEPT !.total = Len(links),
                                            !.is_running = TRUE,
                                            !.current_file = links[1].filename]
         /\ dest' \in PathContents

Discover ==
    /\ dl.pc = "discover"
    /\ \E links \in LinkLists(MaxLinks - seen) :
          /\ seen' = seen + Len(links)
          /\ Discovered(links)
    /\ UNCHANGED <<storeVars, runs>>

\* download_file up to the retry loop: the dedup check, and for STM the check
\* that the link carries download parameters
\* the dedup check made without looking whether there is a history store
AlreadyDownloadedMutAnyStore(link) == exists(link.filename, dl.variant)

\* `self.history and self.history.exists(link.filename, self.download_type)`
AlreadyDownloaded(link) == dl.history /\ exists(link.filename, dl.variant)

DownloadFile ==
    /\ dl.pc = "file"
    /\ IF AlreadyDownloaded(CurLink)
       THEN dl' = [dl EXCEPT !.pc = "account",
                             !.file = Result(FALSE, CurLink.filename, 0, "skipped", 0)]
       ELSE \E params \in ParamsOf(dl.variant) :
               IF dl.variant = "STM" /\ params = "none"
               THEN dl' = [dl EXCEPT !.pc = "account",
                                     !.file = Result(FALSE, CurLink.filename, 0,
                                                     "No download parameters", 0)]
               ELSE dl' = [dl EXCEPT !.pc = "attempt", !.attempt = 0,
                                     !.params = params]
    /\ UNCHANGED <<storeVars, progress, dest, seen, runs>>

\* the try body of the retry loop ends in an exception e
Raised(msg) == [dl EXCEPT !.pc = "except", !.e = msg]

Succeeded(size) ==
    [dl EXCEPT !.pc = "account", !.attempt = 0, !.params = "full",
               !.file = Result(TRUE, CurLink.filename, size, NoError, dl.attempt + 1)]

TooSmall == "File too small"
HtmlPage == "Received HTML instead of file, might be error page"

AttemptREPMutInclusive(o) ==
    CASE o.kind = "neterr" ->
            /\ dl' = Raised(o.msg)
            /\ dest' = dest
      [] o.kind = "broken" ->
            /\ dl' = Raised(o.msg)
            /\ dest' = o.size
      [] OTHER ->
            /\ dest' = o.size
            /\ dl' = IF o.size <= MinFileSize THEN Raised(TooSmall)
                     ELSE Succeeded(o.size)

\* REP: streamed GET written chunk by chunk to the destination, then the size check
AttemptREP(o) ==
    CASE o.kind = "neterr" ->
            /\ dl' = Raised(o.msg)
            /\ dest' = dest
      [] o.kind = "broken" ->
            /\ dl' = Raised(o.msg)
            /\ dest' = o.size
      [] OTHER ->
            /\ dest' = o.size
            /\ dl' = IF o.size < MinFileSize THEN Raised(TooSmall)
                     ELSE Succeeded(o.size)

\* an STM attempt that writes the body before it looks at it
AttemptSTMMutWriteFirst(o) ==
    CASE dl.params = "partial" ->
            /\ dl' = Raised("'hcode'")
            /\ dest' = dest
      [] o.kind # "body" ->
            /\ dl' = Raised(o.msg)
            /\ dest' = dest
      [] o.kind = "body" /\ o.html /\ o.size < HtmlMinSize ->
            /\ dl' = Raised(HtmlPage)
            /\ dest' = o.size
      [] OTHER ->
            /\ dest' = o.size
            /\ dl' = IF o.size < MinFileSize THEN Raised(TooSmall)
                     ELSE Succeeded(o.size)

\* STM: form POST (a missing required parameter raises KeyError before it), the
\* HTML check on the buffered body, then the write and the size check
AttemptSTM(o) ==
    CASE dl.params = "partial" ->
            /\ dl' = Raised("'hcode'")
            /\ dest' = dest
      [] o.kind # "body" ->
            /\ dl' = Raised(o.msg)
            /\ dest' = dest
      [] o.kind = "body" /\ o.html /\ o.size < HtmlMinSize ->
            /\ dl' = Raised(HtmlPage)
            /\ dest' = dest
      [] OTHER ->
            /\ dest' = o.size
            /\ dl' = IF o.size < MinFileSize THEN Raised(TooSmall)
                     ELSE Succeeded(o.size)

\* the try body of one pass of the retry loop of download_file
Attempt ==
    /\ dl.pc = "attempt"
    /\ \E o \in Outcomes :
          IF dl.variant = "REP" THEN AttemptREP(o) ELSE AttemptSTM(o)
    /\ UNCHANGED <<storeVars, progress, seen, runs>>

RetryOrFailMutOneMore ==
    /\ dl.pc = "except"
    /\ dl' = IF dl.attempt > max_retries
             THEN [dl EXCEPT !.pc = "account", !.attempt = 0, !.params = "full",
                             !.e = NoError,
                             !.file = Result(FALSE, CurLink.filename, 0, dl.e,
                                             dl.attempt + 1)]
             ELSE [dl EXCEPT !.pc = "attempt", !.attempt = dl.attempt + 1,
                             !.slept = dl.slept + 1, !.e = NoError]
    /\ UNCHANGED <<storeVars, progress, dest, seen, runs>>

\* a retry loop that sleeps after its last pass too
RetryOrFailMutSleepLast ==
    /\ dl.pc = "except"
    /\ dl' = IF dl.attempt >= max_retries
             THEN [dl EXCEPT !.pc = "account", !.attempt = 0, !.params = "full",
                             !.slept = dl.slept + 1, !.e = NoError,
                             !.file = Result(FALSE, CurLink.filename, 0, dl.e,
                                             dl.attempt + 1)]
             ELSE [dl EXCEPT !.pc = "attempt", !.attempt = dl.attempt + 1,
                             !.slept = dl.slept + 1, !.e = NoError]
    /\ UNCHANGED <<storeVars, progress, dest, seen, runs>>

\* the except branch of the retry loop: the last pass returns the failure with
\* str(e), an earlier one goes round again (time.sleep(2) opens the next pass)
RetryOrFail ==
    /\ dl.pc = "except"
    /\ dl' = IF dl.attempt >= max_retries
             THEN [dl EXCEPT !.pc = "account", !.attempt = 0, !.params = "full",
                             !.e = NoError,
                             !.file = Result(FALSE, CurLink.filename, 0, dl.e,
                                             dl.attempt + 1)]
             ELSE [dl EXCEPT !.pc = "attempt", !.attempt = dl.attempt + 1,
                             !.slept = dl.slept + 1, !.e = NoError]
    /\ UNCHANGED <<storeVars, progress, dest, seen, runs>>

AfterLinkMutBreak(d) ==
    [d EXCEPT !.pc = "sum", !.links = <<>>,
              !.log = OutcomeLog(d.results[Len(d.results)].success)]

\* download_all: the end of one pass of the loop (the log line), then the next
\* link, or after the last one is_running = False and the return
AfterLink(d) ==
    IF Len(d.links) > 1
    THEN [d EXCEPT !.pc = "file", !.links = Tail(d.links),
                   !.log = OutcomeLog(d.results[Len(d.results)].success)]
    ELSE [d EXCEPT !.pc = "sum", !.links = <<>>,
                   !.log = OutcomeLog(d.results[Len(d.results)].success)]

\* DownloadProgress.completed
completed(p) == p.downloaded + p.skipped + p.errors

\* DownloadProgress.percent, the quotient kept as numerator and denominator
percent(p) ==
    IF p.total = 0 THEN [num |-> 0, den |-> 1]
    ELSE [num |-> completed(p) * 100, den |-> p.total]

\* download_all returning without is_running = False
ProgressAfterLinkMutRunning(p) ==
    IF Len(dl.links) > 1
    THEN [p EXCEPT !.current_file = dl.links[2].filename]
    ELSE [p EXCEPT !.current_file = ""]

ProgressAfterLink(p) ==
    IF Len(dl.links) > 1
    THEN [p EXCEPT !.current_file = dl.links[2].filename]
    ELSE [p EXCEPT !.is_running = FALSE, !.current_file = ""]

\* the file at the next link's path, none once the loop is over
NextPath == IF Len(dl.links) > 1 THEN PathContents ELSE {NoFile}

\* What the results list keeps of a DownloadResult: the fields run reads, the
\* error as far as run tells errors apart (None, "skipped", empty, any other)
ErrorKind(error) ==
    IF error \in {NoError, "skipped", ""} THEN error ELSE "error"

Kept(r) == [success |-> r.success, error |-> ErrorKind(r.error)]

\* download_all: results.append(result) and the counters; a success with a
\* history store calls add_record
Account ==
    LET r == dl.file
        d == [dl EXCEPT !.file = NoResult, !.slept = 0,
                        !.results = Append(dl.results, Kept(r)),
                        !.plan = IF r.success \/ (r.error = "skipped" /\ r.attempts = 0)
                                 THEN dl.plan
                                 ELSE NoPlan]
    IN
    /\ dl.pc = "account"
    /\ IF r.success
       THEN IF dl.history
            THEN /\ progress' = [progress EXCEPT !.downloaded = progress.downloaded + 1]
                 /\ dl' = [d EXCEPT !.pc = "record"]
                 /\ CallAdd("main", dl.variant, r.filename)
                 /\ dest' = NoFile
            ELSE /\ progress' = ProgressAfterLink(
                                  [progress EXCEPT !.downloaded = progress.downloaded + 1])
                 /\ dl' = AfterLink(d)
                 /\ sop' = sop
                 /\ dest' \in NextPath
       ELSE /\ progress' = ProgressAfterLink(
                              IF r.error = "skipped"
                              THEN [progress EXCEPT !.skipped = progress.skipped + 1]
                              ELSE [progress EXCEPT !.errors = progress.errors + 1])
            /\ dl' = AfterLink(d)
            /\ sop' = sop
            /\ dest' \in NextPath
    /\ UNCHANGED <<live, backup, tmp, lock, acked, deleted, ops, seen, runs>>

\* add_record has returned or raised: an exception leaves download_all and run
Recorded ==
    /\ dl.pc = "record"
    /\ sop["main"].pc = "done"
    /\ sop' = [sop EXCEPT !["main"] = IdleOp]
    /\ IF sop["main"].ret = "raised"
       THEN /\ dl' = [dl EXCEPT !.pc = "raised"]
            /\ progress' = progress
            /\ dest' = NoFile
       ELSE /\ dl' = AfterLink(dl)
            /\ progress' = ProgressAfterLink(progress)
            /\ dest' \in NextPath
    /\ UNCHANGED <<live, backup, tmp, lock, acked, deleted, ops, seen, runs>>

IsSuccess(r) == r.success
IsSkippedMutSentinel(r) == r.error = "skip"
IsSkipped(r) == r.error = "skipped"
IsError(r) == Truthy(r.error) /\ r.error # "skipped"

\* run: the sums over the results of download_all
RunReturn ==
    /\ dl.pc = "sum"
    /\ dl' = [dl EXCEPT !.pc = "returned", !.results = <<>>, !.log = NoLog,
                        !.ret = Counts(CountOf(dl.results, IsSuccess),
                                       CountOf(dl.results, IsSkipped),
                                       CountOf(dl.results, IsError),
                                       Len(dl.results))]
    /\ UNCHANGED <<storeVars, progress, dest, seen, runs>>

\* main after run: exit(1) on a failed run, otherwise history.save(...) when a
\* history store is in use (download_rep: save(); download_stm:
\* save(download_type=STM))
CliAfterRun ==
    /\ dl.pc = "returned"
    /\ IF dl.ret.success /\ dl.history
       THEN /\ dl' = [dl EXCEPT !.pc = "cli_save"]
            /\ CallSave("main", dl.variant)
       ELSE /\ dl' = [dl EXCEPT !.pc = "exited"]
            /\ sop' = sop
    /\ UNCHANGED <<live, backup, tmp, lock, acked, deleted, ops, progress, dest,
                   seen, runs>>

\* main: history.save has returned or raised; the process ends either way
CliSaved ==
    /\ dl.pc = "cli_save"
    /\ sop["main"].pc = "done"
    /\ sop' = [sop EXCEPT !["main"] = IdleOp]
    /\ dl' = [dl EXCEPT !.pc = "exited"]
    /\ UNCHANGED <<live, backup, tmp, lock, acked, deleted, ops, progress, dest,
                   seen, runs>>

----------------------------------------------------------------------------
(* One command line run again and again *)

\* a history file as earlier runs can have left it
InitialHistories == {Absent, Doc(TRUE, <<Record("f1")>>)}

InitRun ==
    /\ live \in [Files -> InitialHistories]
    /\ backup = [f \in Files |-> Absent]
    /\ tmp = [f \in Files |-> Absent]
    /\ lock = NoThread
    /\ sop = [t \in Threads |-> IdleOp]
    /\ acked = {}
    /\ deleted = {}
    /\ ops = 0
    /\ \E v \in Variants, h \in BOOLEAN : dl = IdleDl(v, h)
    /\ progress = NewProgress
    /\ dest = NoFile
    /\ seen = 0
    /\ runs = 0
    /\ call = NoCall
    /\ sink = NoSink
    /\ cfg = NoCfg

NextRun ==
    \/ StartRun /\ UNCHANGED <<call, sink, cfg>>
    \/ AfterLogin /\ UNCHANGED <<call, sink, cfg>>
    \/ Discover /\ UNCHANGED <<call, sink, cfg>>
    \/ DownloadFile /\ UNCHANGED <<call, sink, cfg>>
    \/ Attempt /\ UNCHANGED <<call, sink, cfg>>
    \/ RetryOrFail /\ UNCHANGED <<call, sink, cfg>>
    \/ Account /\ UNCHANGED <<call, sink, cfg>>
    \/ Recorded /\ UNCHANGED <<call, sink, cfg>>
    \/ RunReturn /\ UNCHANGED <<call, sink, cfg>>
    \/ CliAfterRun /\ UNCHANGED <<call, sink, cfg>>
    \/ CliSaved /\ UNCHANGED <<call, sink, cfg>>
    \/ SaveStep("main") /\ UNCHANGED runVars

SpecRun == InitRun /\ [][NextRun]_vars

FairRun == SpecRun /\ WF_vars(NextRun)

----------------------------------------------------------------------------
(* The history store used by two threads of a hosting process *)

InitFiles ==
    /\ live = [f \in Files |-> Absent]
    /\ backup = [f \in Files |-> Absent]
    /\ tmp = [f \in Files |-> Absent]
    /\ lock = NoThread
    /\ sop = [t \in Threads |-> IdleOp]
    /\ acked = {}
    /\ deleted = {}
    /\ ops = 0

InitStore ==
    /\ InitFiles
    /\ dl = IdleDl("REP", FALSE)
    /\ progress = NewProgress
    /\ dest = NoFile
    /\ seen = 0
    /\ runs = 0
    /\ call = NoCall
    /\ sink = NoSink
    /\ cfg = NoCfg

NextStore ==
    \E t \in Threads :
        \/ StartAdd(t) /\ UNCHANGED runVars
        \/ StartDelete(t) /\ UNCHANGED runVars
        \/ StartSave(t) /\ UNCHANGED runVars
        \/ SaveStep(t) /\ UNCHANGED runVars
        \/ Return(t) /\ UNCHANGED runVars

SpecStore == InitStore /\ [][NextStore]_vars

----------------------------------------------------------------------------
(* One method of a downloader called on its own, with every input it can meet *)

\* the call has not returned yet
NoOut == [kind |-> "pending"]

LoginCalls ==
    {[fn |-> "login", variant |-> v, env |-> env, out |-> NoOut] :
        v \in Variants, env \in LoginEnvs}

\* What a pass can meet when download_file is called on a downloader a caller
\* built: `except Exception` also catches what the logger handed to the
\* constructor raises from the retry log line, or a subclass's session, with
\* any text, the text "skipped" included
CallOutcomes ==
    Outcomes \cup [kind : {"neterr"}, msg : {"skipped"}, html : {FALSE}, size : {0}]

\* download_file(link) without a history store: what each of the three passes
\* of the retry loop would meet
\* a REP link has no metadata that download_file reads
FileCalls ==
    {[fn |-> "download_file", variant |-> "REP", params |-> "full", outcomes |-> os,
      out |-> NoOut] : os \in [1..(max_retries + 1) -> CallOutcomes]}
        \cup {[fn |-> "download_file", variant |-> "STM", params |-> params,
               outcomes |-> os, out |-> NoOut] :
                  params \in ParamKinds,
                  os \in [1..(max_retries + 1) -> CallOutcomes]}

DetectCalls ==
    {[fn |-> "_detect_file_type", variant |-> "REP", name |-> name, out |-> NoOut] :
        name \in NamesUpTo(MaxNameParts)}

\* run from its call of get_download_links on
DiscoveryCalls ==
    {[fn |-> "get_download_links", variant |-> "REP", listing |-> l, out |-> NoOut] :
        l \in RepListings}
        \cup {[fn |-> "get_download_links", variant |-> "STM", listing |-> l,
               out |-> NoOut] : l \in StmListings}

\* _parse_download_links on a page of one "download excel" anchor
ExtractCalls ==
    {[fn |-> "_extract_filename", variant |-> "REP", anchor |-> a, out |-> NoOut] :
        a \in [fn : {"<None>", "n.ecd"}, filename : {"<None>", "m.ecd"},
               file : {"<None>", "k.ecd"},
               rep : {"<None>", "", "/d/", "/d/r.ecd", "r2.xls"},
               text : {"download excel", " Download Excel T.XLS "}]}

\* datetime.now(): the Gregorian year and the month
Nows == [year : {2025, 2026}, month : 1..12]

\* STMDownloader._current_fiscal_year
_current_fiscal_year(now) ==
    LET year_be == now.year + 543
    IN IF now.month < 10 THEN year_be ELSE year_be + 1

\* parse_args of download_stm: the default of --fiscal-year
current_fiscal_year(now) ==
    IF now.month >= 10 THEN now.year + 543 ELSE now.year + 542

\* the two defaults of the fiscal year computed at the same moment
FiscalCalls ==
    {[fn |-> "current_fiscal_year", variant |-> "STM", now |-> now, out |-> NoOut] :
        now \in Nows}

\* get_statistics: the records of a stored document. A record written by
\* add_record carries file_size (an int), file_type and scheme (a value or
\* None); a record of another origin may lack any of the three keys
MaxStatRecords == 2

StatKeys == {"file_size", "file_type", "scheme"}

StatValues ==
    [file_size : {100, 2048}, file_type : {"<None>", "OP", "STM_IP"},
     scheme : {"<None>", "ucs", "ofc"}]

StatRecords ==
    {[k \in keys \cup {"filename"} |-> IF k = "filename" THEN "f1" ELSE v[k]] :
        keys \in SUBSET StatKeys, v \in StatValues}

\* download.get(key, default)
GetOr(download, key, default) ==
    IF key \in DOMAIN download THEN download[key] ELSE default

RECURSIVE sum(_)
sum(q) == IF q = <<>> THEN 0 ELSE Head(q) + sum(Tail(q))

\* a dict of counts: how many of the downloads fall under each key
Counted(downloads, keyOf) ==
    [k \in {keyOf[i] : i \in DOMAIN keyOf}
        |-> Cardinality({i \in DOMAIN keyOf : keyOf[i] = k})]

get_statisticsMutNoDefault(history) ==
    LET downloads == history.downloads
        typed == SelectSeq(downloads,
                           LAMBDA d : GetOr(d, "file_type", "<None>") # "<None>")
        schemed == SelectSeq(downloads, LAMBDA d : "scheme" \in DOMAIN d)
    IN [total_files |-> Len(downloads),
        total_size |-> sum([i \in DOMAIN downloads
                              |-> GetOr(downloads[i], "file_size", 0)]),
        last_run |-> history.last_run,
        file_types |-> Counted(typed, [i \in DOMAIN typed |-> typed[i].file_type]),
        schemes |-> Counted(schemed,
                            [i \in DOMAIN schemed |-> schemed[i].scheme])]

\* get_statistics, given what load returned (total_size_formatted is the
\* text of total_size and is left out)
get_statistics(history) ==
    LET downloads == history.downloads
        \* file_type = download.get('file_type'); if file_type:
        typed == SelectSeq(downloads,
                           LAMBDA d : GetOr(d, "file_type", "<None>") # "<None>")
    IN [total_files |-> Len(downloads),
        total_size |-> sum([i \in DOMAIN downloads
                              |-> GetOr(downloads[i], "file_size", 0)]),
        last_run |-> history.last_run,
        file_types |-> Counted(typed, [i \in DOMAIN typed |-> typed[i].file_type]),
        schemes |-> Counted(downloads,
                            [i \in DOMAIN downloads
                                |-> GetOr(downloads[i], "scheme", "ucs")])]

\* get_statistics called on a family whose history file holds the content
StatCalls ==
    {[fn |-> "get_statistics", variant |-> "REP", content |-> c, out |-> NoOut] :
        c \in {Absent, PartialFile}
                \cup {Doc(TRUE, ds) : ds \in SeqsUpTo(StatRecords, MaxStatRecords)}}

Calls ==
    LoginCalls \cup FileCalls \cup DetectCalls \cup DiscoveryCalls \cup ExtractCalls
        \cup FiscalCalls \cup StatCalls

\* history = self.load(download_type) and the statistics of what it returned
CallStatistics ==
    /\ call.fn = "get_statistics"
    /\ call.out = NoOut
    /\ call' = [call EXCEPT !.out =
                  Returned(get_statistics(LoadContent(call.content)), <<>>)]
    /\ UNCHANGED <<storeVars, dl, progress, dest, seen, runs, sink, cfg>>

CallFiscal ==
    /\ call.fn = "current_fiscal_year"
    /\ call.out = NoOut
    /\ call' = [call EXCEPT !.out =
                  [kind |-> "return", logs |-> <<>>,
                   value |-> _current_fiscal_year(call.now),
                   default |-> current_fiscal_year(call.now)]]
    /\ UNCHANGED <<storeVars, dl, progress, dest, seen, runs, sink, cfg>>

\* the anchor's filename is resolved and, `if not filename`, the anchor left out
CallExtract ==
    /\ call.fn = "_extract_filename"
    /\ call.out = NoOut
    /\ LET filename == _extract_filename(call.anchor)
           name == IF filename \in {"<None>", ""} THEN NoName ELSE filename
       IN call' = [call EXCEPT !.out =
                      [kind |-> "return", value |-> filename, logs |-> <<>>,
                       links |-> _parse_download_links(
                                    <<[href |-> "a", name |-> name]>>, "ucs")]]
    /\ UNCHANGED <<storeVars, dl, progress, dest, seen, runs, sink, cfg>>

\* the links as the run reads them: by filename
LinksOf(found) == [i \in 1..Len(found) |-> Link(found[i].filename)]

CallDiscover ==
    /\ call.fn = "get_download_links"
    /\ dl.pc = "discover"
    /\ LET out == get_download_links(call.variant, call.listing)
       IN /\ call' = [call EXCEPT !.out = out]
          /\ IF out.kind = "raise"
             THEN /\ dl' = [dl EXCEPT !.pc = "raised"]
                  /\ UNCHANGED <<progress, dest>>
             ELSE Discovered(LinksOf(out.value))
    /\ UNCHANGED <<storeVars, seen, runs, sink, cfg>>

CallDetect ==
    /\ call.fn = "_detect_file_type"
    /\ call.out = NoOut
    /\ call' = [call EXCEPT !.out = Returned(_detect_file_type(call.name), <<>>)]
    /\ UNCHANGED <<storeVars, dl, progress, dest, seen, runs, sink, cfg>>

CallLogin ==
    /\ call.fn = "login"
    /\ call.out = NoOut
    /\ call' = [call EXCEPT !.out = login(call.env)]
    /\ UNCHANGED <<storeVars, dl, progress, dest, seen, runs, sink, cfg>>

\* the try body of one pass of the retry loop, meeting what the call holds
\* for that pass
CallAttempt ==
    /\ call.fn = "download_file"
    /\ dl.pc = "attempt"
    /\ IF dl.variant = "REP"
       THEN AttemptREP(call.outcomes[dl.attempt + 1])
       ELSE AttemptSTM(call.outcomes[dl.attempt + 1])
    /\ UNCHANGED <<storeVars, progress, seen, runs, call, sink, cfg>>

InitCall ==
    /\ InitFiles
    /\ call \in Calls
    /\ dl = CASE call.fn = "download_file" ->
                    [IdleDl(call.variant, FALSE) EXCEPT !.pc = "file",
                                                        !.links = <<Link("f1")>>]
              [] call.fn = "get_download_links" ->
                    [IdleDl(call.variant, FALSE) EXCEPT !.pc = "discover"]
              [] OTHER -> IdleDl(call.variant, FALSE)
    /\ progress = NewProgress
    /\ dest \in IF call.fn = "download_file" THEN PathContents ELSE {NoFile}
    /\ seen = 0
    /\ runs = 0
    /\ sink = NoSink
    /\ cfg = NoCfg

NextCall ==
    \/ CallLogin
    \/ CallDetect
    \/ CallExtract
    \/ CallFiscal
    \/ CallStatistics
    \/ CallDiscover
    \/ DownloadFile /\ UNCHANGED <<call, sink, cfg>>
    \/ CallAttempt
    \/ RetryOrFail /\ UNCHANGED <<call, sink, cfg>>

SpecCall == InitCall /\ [][NextCall]_vars

(***************************************************************************)
(* Skip-if-present and the retry loop (SpecRun)                            *)
(***************************************************************************)

\* C1: with a history store configured, download_file of either variant, called
\* for a link whose filename is in the family's history, returns success false,
\* error "skipped", file_size 0 without a transfer attempt and leaves the
\* destination file and the history files as they were; no transfer is ever
\* attempted for a filename that is in the family's history.
C1_SkipIfPresent ==
    /\ [](dl.history /\ dl.pc \in {"attempt", "except"}
             => ~InHistory(dl.variant, CurLink.filename))
    /\ [][(dl.pc = "file" /\ dl.history /\ InHistory(dl.variant, CurLink.filename))
            => /\ dl'.pc = "account"
               /\ dl'.file = Result(FALSE, CurLink.filename, 0, "skipped", 0)
               /\ UNCHANGED <<dest, live, backup, tmp>>]_vars

C1_Skipped ==
    /\ dl.pc = "account"
    /\ dl.history
    /\ dl.variant = "STM"
    /\ InHistory("STM", CurLink.filename)
    /\ dl.file = Result(FALSE, CurLink.filename, 0, "skipped", 0)
    /\ dest # NoFile

\* C2: once a link's file was fetched and its record added, download_file for a
\* link of the same filename, later in the same run or in a later run, makes no
\* transfer attempt and returns the "skipped" result.
C2_DedupIdempotent ==
    (/\ dl.history
     /\ dl.links # <<>>
     /\ [dtype |-> dl.variant, filename |-> CurLink.filename] \in acked)
        => /\ dl.pc \notin {"attempt", "except"}
           /\ dl.pc = "account"
                 => dl.file = Result(FALSE, CurLink.filename, 0, "skipped", 0)

C2_SkippedInLaterRun ==
    /\ runs = 2
    /\ dl.pc = "account"
    /\ dl.history
    /\ dl.plan.k = 0
    /\ CurLink.filename = "f2"
    /\ [dtype |-> dl.variant, filename |-> "f2"] \in acked
    /\ dl.file.error = "skipped"

\* C3: a link that passes the dedup check gets at most 3 transfer attempts; when
\* every attempt fails, by a network error or by content validation, there are
\* exactly 3, the call returns success false with the message of the last
\* attempt's exception, never success and never a 4th attempt; the retry loop
\* always ends.
C3_RetryCap ==
    /\ [](/\ dl.attempt + 1 <= 3
          /\ dl.file.attempts <= 3
          /\ (dl.pc = "account" /\ ~dl.file.success /\ dl.file.attempts > 0)
                => dl.file.attempts = 3)
    /\ [][dl.pc = "except"
            => IF dl.attempt + 1 = 3
               THEN /\ dl'.pc = "account"
                    /\ dl'.file = Result(FALSE, CurLink.filename, 0, dl.e, 3)
               ELSE /\ dl'.pc = "attempt"
                    /\ dl'.attempt = dl.attempt + 1
                    /\ dl'.links = dl.links]_vars
    /\ (dl.pc \in {"attempt", "except"}) ~> (dl.pc = "account")

C3_ThirdFailureReturned ==
    /\ dl.pc = "account"
    /\ dl.file = Result(FALSE, CurLink.filename, 0, TooSmall, 3)
    /\ dest = 99

\* C8: a run whose login succeeds and whose discovery returns N > 0 links of
\* distinct filenames, k of them in the family's history, every fetch
\* succeeding, returns success true, downloaded N - k, skipped k, errors 0 and
\* total N.
C8_RunSummary ==
    (dl.pc = "returned" /\ dl.plan.clean /\ dl.plan.n > 0)
        => dl.ret = Counts(dl.plan.n - dl.plan.k, dl.plan.k, 0, dl.plan.n)

C8_ThreeLinksOneKnown ==
    /\ dl.pc = "returned"
    /\ dl.history
    /\ dl.plan = [clean |-> TRUE, n |-> 3, k |-> 1]
    /\ dl.ret = Counts(2, 1, 0, 3)

\* C9 as stated: only an authentication failure ends a run early, so no run
\* ends by an exception leaving it.
C9_OnlyLoginEndsRunEarly == dl.pc # "raised"

\* C9 amended: a run whose login succeeded always ends; a link that failed or
\* was skipped is followed by the next link or by the end of the loop, and a
\* run that returns has an outcome for every discovered link; the one thing
\* besides a failed login that ends a run early is add_record raising a
\* history write error, which leaves download_all and run as an exception.
C9_RunCompletes ==
    /\ [](dl.pc = "returned"
            => \/ dl.ret = LoginFailed
               \/ /\ dl.ret.kind = "counts"
                  /\ dl.ret.success
                  /\ dl.ret.total = progress.total
                  /\ progress.downloaded + progress.skipped + progress.errors
                        = progress.total)
    /\ [][(dl.pc = "account" /\ ~dl.file.success)
            => dl'.pc = IF Len(dl.links) > 1 THEN "file" ELSE "sum"]_vars
    /\ [][(dl.pc # "raised" /\ dl'.pc = "raised")
            => /\ dl.pc = "record"
               /\ sop["main"].kind = "add"
               /\ sop["main"].failed # "no"
               /\ sop["main"].ret = "raised"]_vars
    /\ (dl.pc = "discover") ~> (dl.pc \in {"returned", "raised"})

C9_ReturnedDespiteFailedLink ==
    /\ dl.pc = "returned"
    /\ dl.ret.kind = "counts"
    /\ dl.ret.total = 3
    /\ dl.ret.errors = 1
    /\ dl.ret.downloaded = 2
    /\ dl.history

(***************************************************************************)
(* The history store (SpecStore)                                           *)
(***************************************************************************)

\* C4: at every step of a save, finished or not, the live history file is a
\* complete document (or still absent), never a cut-short one: it is the
\* document from before the save or the new one, the former up to the replace
\* and after any failure, the latter once the replace happened.
C4_AtomicPersistence ==
    /\ \A f \in Files : live[f].kind \in {"absent", "doc"}
    /\ \A t \in Threads :
          lock = t =>
            /\ live[FamilyFile(sop[t].dtype)] \in {sop[t].pre, sop[t].data}
            /\ sop[t].pc \in {"write", "replace", "except", "raise"}
                  => live[FamilyFile(sop[t].dtype)] = sop[t].pre
            /\ sop[t].pc = "release"
                  => live[FamilyFile(sop[t].dtype)] = sop[t].data

C4_FailedReplaceKeptLive ==
    \E t \in Threads :
        /\ lock = t
        /\ sop[t].pc = "raise"
        /\ sop[t].failed = "replace"
        /\ sop[t].pre.kind = "doc"
        /\ sop[t].data # sop[t].pre
        /\ live[FamilyFile(sop[t].dtype)] = sop[t].pre

\* C5 as stated: when a save of a family whose live file existed ends, with
\* success or with a failure, the backup file holds the live content from
\* immediately before that save.
C5_BackupAfterEverySave ==
    \A t \in Threads :
        (lock = t /\ sop[t].pc \in {"release", "raise"} /\ sop[t].pre.kind # "absent")
            => backup[FamilyFile(sop[t].dtype)] = sop[t].pre

\* C5 amended: from the moment the backup copy of a save succeeded, through the
\* temp write and the replace and whether these succeed or fail, the backup
\* file holds the live content from immediately before that save (a save whose
\* backup copy fails ends at once and leaves no such backup).
C5_BackupOncePastCopy ==
    \A t \in Threads :
        (lock = t /\ sop[t].failed # "backup" /\ sop[t].pre.kind # "absent")
            => backup[FamilyFile(sop[t].dtype)] = sop[t].pre

C5_BackupOfReplacedDocument ==
    \E t \in Threads :
        /\ lock = t
        /\ sop[t].pc = "release"
        /\ sop[t].pre.kind = "doc"
        /\ live[FamilyFile(sop[t].dtype)] # sop[t].pre
        /\ backup[FamilyFile(sop[t].dtype)] = sop[t].pre

\* C6 as stated: no record is lost to a write built from a stale load, so the
\* record of every add_record that returned is in the live document of its
\* family as long as no delete_record was called for that filename.
C6_NoLostRecord ==
    \A a \in acked :
        (\A d \in deleted : d.filename # a.filename)
            => InHistory(a.dtype, a.filename)

C10_WriteErrorsPropagate ==
    \A t \in Threads :
        /\ (sop[t].pc \in {"release", "done"} /\ sop[t].ret # "raised")
              => sop[t].failed = "no"
        /\ (sop[t].pc = "done" /\ sop[t].failed # "no") => sop[t].ret = "raised"
        /\ (sop[t].pc = "raise" /\ sop[t].failed \in {"write", "replace"})
              => tmp[FamilyFile(sop[t].dtype)] = Absent

C10_AddRecordRaised ==
    \E t \in Threads :
        /\ sop[t].pc = "done"
        /\ sop[t].kind = "add"
        /\ sop[t].failed = "replace"
        /\ sop[t].ret = "raised"
        /\ tmp[FamilyFile(sop[t].dtype)] = Absent
        /\ ~InHistory(sop[t].dtype, sop[t].fname)

\* C15: with a history store, download_all calls add_record for a result
\* exactly when it is a success, once, with that result's filename and family,
\* and never for a skipped or failed one; when the run returns, the family's
\* history document holds one record more per successful link than when
\* download_all began, the record of every one of them, and none for a link
\* that was skipped or failed.
C15_OnlySuccessesRecorded ==
    /\ [][(dl.history /\ dl.pc = "account")
            => IF dl.file.success
               THEN /\ dl'.pc = "record"
                    /\ sop'["main"].kind = "add"
                    /\ sop'["main"].fname = dl.file.filename
                    /\ sop'["main"].dtype = dl.variant
               ELSE /\ sop' = sop
                    /\ dl'.pc \in {"file", "sum"}]_vars
    /\ [][(sop["main"].kind # "add" /\ sop'["main"].kind = "add")
            => dl.pc = "account" /\ dl.file.success]_vars
    /\ [][(dl.pc = "record" /\ dl'.pc \in {"file", "sum"})
            => InHistory(dl.variant, CurLink.filename)]_vars
    /\ []((dl.history /\ progress.total > 0
              /\ dl.pc \in {"file", "attempt", "except", "account", "sum",
                             "returned"})
            => RecordCount(dl.variant) = dl.base + progress.downloaded)

C15_OneRecordForThreeLinks ==
    /\ dl.pc = "returned"
    /\ dl.history
    /\ dl.variant = "STM"
    /\ dl.ret = Counts(1, 1, 1, 3)
    /\ dl.base = 1
    /\ RecordCount("STM") = 2

\* C16 as stated: the line download_all logs for a link that was skipped by
\* the dedup check presents it as a skip, not as a failure at error level.
C16_SkipNotLoggedAsFailure ==
    [][(dl.pc = "account" /\ dl.file = Result(FALSE, CurLink.filename, 0, "skipped", 0))
        => /\ dl'.log.msg # "Failed"
           /\ dl'.log.level # "error"]_vars

(***************************************************************************)
(* Login (SpecRun, SpecCall)                                               *)
(***************************************************************************)

\* C11: when login returns false, run returns {success: false, error: 'Login
\* failed'} as its next step, without a second login, and in that run there is
\* no discovery, no transfer and no write to a history file.
C11_LoginFailureIsFatal ==
    /\ [][(dl.pc = "auth" /\ ~dl.auth)
            => /\ dl'.pc = "returned"
               /\ dl'.ret = LoginFailed
               /\ UNCHANGED <<live, backup, tmp, sop, dest, seen, progress>>]_vars
    /\ [](dl.ret = LoginFailed
            => /\ dl.pc \in {"returned", "exited"}
               /\ dl.links = <<>>
               /\ dl.results = <<>>
               /\ sop["main"].pc = "idle"
               /\ progress = NewProgress
               /\ dest = NoFile)
    /\ [][(dl.ret = LoginFailed /\ runs' = runs)
            => UNCHANGED <<live, backup, tmp, sop, dest, seen, progress>>]_vars

C11_SecondRunRejected ==
    /\ runs = 2
    /\ dl.pc = "exited"
    /\ dl.ret = LoginFailed
    /\ dl.history
    /\ InHistory(dl.variant, "f2")

\* C12: login returns false exactly when the priming GET or the POST raised a
\* network-level exception, or the final URL of the POST contains "login" and
\* the response text contains "error", in any spelling of upper and lower
\* case; it returns true otherwise; it never raises, and after a network-level
\* exception its last log line is at error level.
C12_LoginHeuristic ==
    (call.fn = "login" /\ call.out # NoOut)
        => LET raised == call.env.get_raises \/ call.env.post_raises
               atLogin == \E i \in 1..Len(call.env.url) :
                              call.env.url[i] \in {"login", "LOGIN"}
               hasError == \E i \in 1..Len(call.env.text) :
                               call.env.text[i] \in {"error", "Error"}
           IN /\ call.out.kind = "return"
              /\ call.out.value = ~(raised \/ (atLogin /\ hasError))
              /\ raised => call.out.logs[Len(call.out.logs)] = "error"

C12_RejectedInUpperCase ==
    /\ call.fn = "login"
    /\ call.variant = "STM"
    /\ ~call.env.get_raises
    /\ ~call.env.post_raises
    /\ call.env.url = <<"main", "LOGIN">>
    /\ call.env.text = <<"welcome", "Error">>
    /\ call.out = Returned(FALSE, <<"info", "error">>)

(***************************************************************************)
(* Validation of a fetched body (SpecCall)                                 *)
(***************************************************************************)

\* C13: in both variants a pass of the retry loop that receives a complete
\* body of fewer than 100 bytes (99 in particular) ends in a validation
\* failure, not in success, and one that receives 100 bytes or more of
\* non-HTML content returns success with file_size the size received.
C13_SizeThreshold ==
    [][(call.fn = "download_file" /\ dl.pc = "attempt" /\ dl.params = "full"
          /\ call.outcomes[dl.attempt + 1].kind = "body")
        => LET o == call.outcomes[dl.attempt + 1]
           IN /\ o.size < 100
                   => /\ dl'.pc = "except"
                      /\ dl'.e \in {TooSmall, HtmlPage}
              /\ (o.size >= 100 /\ ~o.html)
                   => /\ dl'.pc = "account"
                      /\ dl'.file = Result(TRUE, "f1", o.size, NoError,
                                            dl.attempt + 1)]_vars

C13_HundredBytesAccepted ==
    /\ call.fn = "download_file"
    /\ call.variant = "STM"
    /\ dl.pc = "account"
    /\ call.outcomes[1] = [kind |-> "body", msg |-> NoError, html |-> FALSE,
                           size |-> 99]
    /\ call.outcomes[2] = [kind |-> "body", msg |-> NoError, html |-> FALSE,
                           size |-> 100]
    /\ dl.file = Result(TRUE, "f1", 100, NoError, 2)
    /\ dest = 100

\* C14 as stated: in both variants a response with an HTML content type and a
\* body smaller than an error-page-sized one (under 1000 bytes) is never
\* returned as a success.
C14_HtmlErrorPageNeverSuccess ==
    (call.fn = "download_file" /\ dl.pc = "account" /\ dl.file.success)
        => ~(/\ call.outcomes[dl.file.attempts].html
             /\ call.outcomes[dl.file.attempts].size < 1000)

(***************************************************************************)
(* Discovery (SpecCall)                                                    *)
(***************************************************************************)

\* C17 as stated: a REP filename that contains _IP_ (in any case) is classified
\* IP_APPEAL_NHSO with APPEAL and NHSO, IP_APPEAL with APPEAL alone, IP
\* otherwise, whether or not it also contains _OP_ or _ORF_; without _IP_ it
\* is OP with _OP_, else ORF with _ORF_, else it has no file type.
C17_IpBeforeOpBeforeOrf ==
    (call.fn = "_detect_file_type" /\ call.out # NoOut)
        => LET has(parts) == \E i \in 1..Len(call.name) : call.name[i] \in parts
           IN /\ call.out.kind = "return"
              /\ call.out.value =
                    IF has({"_IP_", "_ip_"})
                    THEN IF has({"APPEAL"})
                         THEN IF has({"NHSO"}) THEN "IP_APPEAL_NHSO"
                              ELSE "IP_APPEAL"
                         ELSE "IP"
                    ELSE IF has({"_OP_"}) THEN "OP"
                         ELSE IF has({"_ORF_"}) THEN "ORF"
                              ELSE "None"

\* C18 as stated: the list one REPDownloader.get_download_links call returns,
\* over all configured schemes, has no two links with the same filename.
C18_NoDuplicateFilenames ==
    (call.fn = "get_download_links" /\ call.variant = "REP" /\ call.out # NoOut)
        => Distinct(call.out.value)

\* the anchors of a page that resolve to filename, in document order
AnchorsFor(page, filename) ==
    {k \in 1..Len(page) : page[k].href # NoHref /\ page[k].name = filename}

\* C18, amended: filenames are deduplicated within the page of one scheme,
\* first occurrence wins. Of the list one REPDownloader.get_download_links
\* call returns, the links of one scheme have distinct filenames, each link
\* carries the href of the first anchor of that scheme's page that resolves to
\* its filename, and every filename some anchor of a fetched page resolves to
\* has a link for that scheme, also when another scheme lists it as well.
C18_DedupWithinSchemePage ==
    (call.fn = "get_download_links" /\ call.variant = "REP" /\ call.out # NoOut)
        => LET links == call.out.value
               configured == call.listing.configured
               page(scheme) ==
                   call.listing.fetches[CHOOSE n \in 1..Len(configured) :
                                                   configured[n] = scheme].page
           IN /\ call.out.kind = "return"
              /\ \A i, j \in 1..Len(links) :
                    (links[i].filename = links[j].filename
                        /\ links[i].scheme = links[j].scheme) => i = j
              /\ \A i \in 1..Len(links) :
                    LET first == AnchorsFor(page(links[i].scheme), links[i].filename)
                    IN /\ first # {}
                       /\ \A k \in first :
                             (\A l \in first : k <= l)
                                => links[i].url = page(links[i].scheme)[k].href
              /\ \A n \in 1..Len(configured) : \A f \in PageFilenames :
                    AnchorsFor(call.listing.fetches[n].page, f) # {}
                        => \E i \in 1..Len(links) :
                              /\ links[i].filename = f
                              /\ links[i].scheme = configured[n]

\* C18 witness: a page named f1 twice under different hrefs, and a second
\* scheme's page naming f1 again; the list has f1 once per scheme
C18_SameFilenameOnTwoSchemes ==
    /\ call.fn = "get_download_links"
    /\ call.variant = "REP"
    /\ call.out # NoOut
    /\ Len(call.listing.configured) = 2
    /\ call.listing.fetches[1].page
          = <<[href |-> "a", name |-> "f1"], [href |-> "b", name |-> "f1"]>>
    /\ call.listing.fetches[2].page = <<[href |-> "b", name |-> "f1"]>>
    /\ call.out.value
          = <<DownloadLink("a", "f1", "ucs"), DownloadLink("b", "f1", "ofc")>>

\* C19: discovery failure is not fatal. Once run's get_download_links call is
\* over, no exception has left it; for REP a scheme whose GET failed has no
\* link in the list while every other configured scheme has the links of its
\* page, in the configured order; for STM a failed GET of the list page or of
\* the view gives the empty list; and when the list is empty the run has
\* returned success with all four counts 0 without a transfer: no progress
\* started, no attempt made, no result, nothing written to the download path.
C19_DiscoveryFailureNotFatal ==
    (call.fn = "get_download_links" /\ call.out # NoOut)
        => LET links == call.out.value
               listing == call.listing
               of(scheme) == SelectSeq(links, LAMBDA link : link.scheme = scheme)
           IN /\ call.out.kind = "return"
              /\ dl.pc # "raised"
              /\ call.variant = "REP" =>
                    \A n \in 1..Len(listing.configured) :
                        of(listing.configured[n])
                            = IF listing.fetches[n].ok
                              THEN _parse_download_links(listing.fetches[n].page,
                                                         listing.configured[n])
                              ELSE <<>>
              /\ call.variant = "REP" =>
                    \A i, j \in 1..Len(links) :
                        i <= j => \E n, m \in 1..Len(listing.configured) :
                                     /\ n <= m
                                     /\ links[i].scheme = listing.configured[n]
                                     /\ links[j].scheme = listing.configured[m]
              /\ (call.variant = "STM" /\ (listing.list_raises \/ listing.view_raises))
                    => links = <<>>
              /\ links = <<>> =>
                    /\ dl.pc = "returned"
                    /\ dl.ret = Counts(0, 0, 0, 0)
                    /\ progress = NewProgress
                    /\ dl.attempt = 0
                    /\ dl.results = <<>>
                    /\ dest = NoFile

\* C19 witness: the GET for the first of two schemes failed, the second
\* scheme's page had a link, and the call returned that link
C19_FirstSchemeFailedSecondListed ==
    /\ call.fn = "get_download_links"
    /\ call.variant = "REP"
    /\ call.out # NoOut
    /\ Len(call.listing.configured) = 2
    /\ ~call.listing.fetches[1].ok
    /\ call.listing.fetches[2].page = <<[href |-> "a", name |-> "f1"]>>
    /\ call.out.value = <<DownloadLink("a", "f1", "ofc")>>
    /\ dl.pc = "file"

\* C20 as stated: a statement-list row of at least 9 cells whose onclick is
\* not downloadBill with 7 quoted arguments is skipped with a logged warning
\* and left out of the returned links; it raises nothing and the other rows
\* still give their links. Once an STM discovery whose GETs succeeded is over,
\* it has returned the links of the matching rows in row order, and its log
\* has a warning line for every non-matching row.
C20_NonMatchingRowWarned ==
    (/\ call.fn = "get_download_links"
     /\ call.variant = "STM"
     /\ call.out # NoOut
     /\ ~call.listing.list_raises
     /\ ~call.listing.view_raises)
        => LET rows == call.listing.rows
               matching == SelectSeq(rows, LAMBDA row : row.kind = "match")
               warnings == {i \in 1..Len(call.out.logs) : call.out.logs[i] = "warning"}
               unparsed == {k \in 1..Len(rows) : rows[k].kind \in {"nomatch", "raise"}}
           IN /\ call.out.kind = "return"
              /\ Len(call.out.value) = Len(matching)
              /\ \A i \in 1..Len(matching) :
                    call.out.value[i].filename = StmFilename(matching[i].document_no)
              /\ Cardinality(warnings) = Cardinality(unparsed)

(***************************************************************************)
(* Missing download parameters (SpecCall)                                  *)
(***************************************************************************)

\* C21 as stated: a transfer that fails because the STM link's metadata has
\* no download parameters, or lacks a required one, is handled like any other
\* transfer failure: download_file returns a failure that is no skip only
\* after max_retries + 1 passes of the retry loop.
C21_MissingParamsRetried ==
    (/\ call.fn = "download_file"
     /\ call.variant = "STM"
     /\ call.params \in {"none", "partial"}
     /\ dl.pc = "account")
        => /\ ~dl.file.success
           /\ Truthy(dl.file.error)
           /\ dl.file.error # "skipped"
           /\ dl.file.attempts = max_retries + 1

(***************************************************************************)
(* Phases of a run (SpecRun)                                               *)
(***************************************************************************)

\* The phase a position of main / run / download_all lies in: 0 outside a run
\* (Idle: before run, after it returned to main's exit, or left by an
\* exception), 1 Authenticating, 2 Discovering, 3 Transferring, 4 Done (or
\* Failed: run has its return value)
PhaseOf(pc) ==
    CASE pc \in {"idle", "exited", "raised"} -> 0
      [] pc = "auth" -> 1
      [] pc = "discover" -> 2
      [] pc \in {"file", "attempt", "except", "account", "record"} -> 3
      [] OTHER -> 4

\* C22: a run goes through Idle, Authenticating, Discovering, Transferring,
\* Done in this order and re-enters none: login comes first, discovery is
\* entered from login alone and only once it succeeded, transfer from discovery
\* alone. The links are transferred one at a time in the order of the
\* discovered list: the result in hand is that of the first link not yet
\* accounted for, each result is appended for that link before the list moves
\* on by exactly that link, and when download_all is over there are as many
\* results as links were discovered.
C22_PhaseOrder ==
    /\ []( /\ (dl.pc \in {"file", "attempt", "except", "account"}
                => Len(dl.results) + Len(dl.links) = progress.total)
           /\ (dl.pc = "record"
                => Len(dl.results) + Len(dl.links) = progress.total + 1)
           /\ (PhaseOf(dl.pc) = 3 => dl.links # <<>>)
           /\ (dl.pc = "account" => dl.file.filename = dl.links[1].filename)
           /\ (dl.pc = "sum" => (dl.links = <<>> /\ Len(dl.results) = progress.total)))
    /\ [][ /\ ((PhaseOf(dl.pc) # 0 /\ PhaseOf(dl'.pc) # 0)
                => PhaseOf(dl'.pc) >= PhaseOf(dl.pc))
           /\ PhaseOf(dl'.pc) # PhaseOf(dl.pc)
                => /\ (PhaseOf(dl'.pc) = 1 => PhaseOf(dl.pc) = 0)
                   /\ (PhaseOf(dl'.pc) = 2 => (PhaseOf(dl.pc) = 1 /\ dl.auth))
                   /\ (PhaseOf(dl'.pc) = 3 => PhaseOf(dl.pc) = 2)
                   /\ (PhaseOf(dl.pc) = 0 => PhaseOf(dl'.pc) = 1)
           /\ dl'.results # dl.results
                => \/ dl'.results = <<>>
                   \/ /\ dl.pc = "account"
                      /\ dl'.results = Append(dl.results, Kept(dl.file))
           /\ (dl'.links # dl.links /\ PhaseOf(dl.pc) = 3)
                => (PhaseOf(dl'.pc) = 0 \/ dl'.links = Tail(dl.links))]_vars

\* C22 witness: download_all is over for a list of three links, with three
\* results
C22_ThreeLinksInOrder ==
    /\ dl.pc = "sum"
    /\ progress.total = 3
    /\ Len(dl.results) = 3

\* C23: the progress counters. In every state 0 <= completed <= total with
\* completed = downloaded + skipped + errors, and percent is 0 when total is
\* 0 and completed / total * 100 otherwise. While download_all is at work
\* is_running is true and completed is the number of links accounted for;
\* once it has returned is_running is false, current_file is cleared and
\* completed = total. A step that changes a counter is the accounting of one
\* link, which adds one to exactly one of downloaded, skipped and errors and
\* leaves total alone, or the start of a download_all or of a run, which
\* zeroes the three.
C23_ProgressCounters ==
    /\ []( /\ completed(progress)
                 = progress.downloaded + progress.skipped + progress.errors
            /\ progress.downloaded >= 0
            /\ progress.skipped >= 0
            /\ progress.errors >= 0
            /\ completed(progress) <= progress.total
            /\ (progress.total = 0 => percent(progress).num = 0)
            /\ (progress.total > 0
                  => percent(progress).num * progress.total
                        = completed(progress) * 100 * percent(progress).den)
            /\ (PhaseOf(dl.pc) = 3
                  => /\ progress.is_running
                     /\ progress.current_file = dl.links[1].filename
                     /\ completed(progress) = Len(dl.results))
            /\ (PhaseOf(dl.pc) = 4
                  => /\ ~progress.is_running
                     /\ progress.current_file = ""
                     /\ completed(progress) = progress.total))
    /\ [][ /\ (dl.pc = "account"
                  => /\ completed(progress') = completed(progress) + 1
                     /\ progress'.total = progress.total
                     /\ \/ /\ progress'.downloaded = progress.downloaded + 1
                           /\ dl.file.success
                        \/ /\ progress'.skipped = progress.skipped + 1
                           /\ ~dl.file.success
                           /\ dl.file.error = "skipped"
                        \/ /\ progress'.errors = progress.errors + 1
                           /\ ~dl.file.success
                           /\ dl.file.error # "skipped")
           /\ (dl.pc # "account" /\ completed(progress') # completed(progress))
                  => (completed(progress') = 0 /\ dl.pc \in {"discover", "exited", "raised"})
          ]_vars

\* C23 witness: download_all is over for three links, one downloaded, one
\* skipped, one failed
C23_OneOfEach ==
    /\ dl.pc = "sum"
    /\ progress = [total |-> 3, downloaded |-> 1, skipped |-> 1, errors |-> 1,
                   current_file |-> "", is_running |-> FALSE]

(***************************************************************************)
(* Runs without a history store (SpecRun)                                  *)
(***************************************************************************)

C25_FilenameRules ==
    (call.fn = "_extract_filename" /\ call.out # NoOut)
        => LET a == call.anchor
               filename == call.out.value
           IN /\ a.fn = "n.ecd" => filename = "n.ecd"
              /\ (a.fn = "<None>" /\ a.filename = "m.ecd") => filename = "m.xls"
              /\ (a.fn = "<None>" /\ a.filename = "<None>" /\ a.file = "k.ecd")
                    => filename = "k.ecd"
              /\ (a.fn = "<None>" /\ a.filename = "<None>" /\ a.file = "<None>")
                    => /\ a.rep = "/d/r.ecd" => filename = "r.xls"
                       /\ a.rep = "r2.xls" => filename = "r2.xls"
                       /\ a.rep = "/d/" => filename = ""
                       /\ a.rep \in {"<None>", ""}
                            => filename = IF a.text = " Download Excel T.XLS "
                                          THEN "Download Excel T.XLS"
                                          ELSE "<None>"
              /\ call.out.links
                    = IF filename \in {"<None>", ""} THEN <<>>
                      ELSE <<DownloadLink("a", filename, "ucs")>>

\* C25 witness: an anchor with a filename and a file parameter and a
\* rep_eclaim anchor beside it got the filename parameter's name, rewritten
C25_FilenameBeforeFile ==
    /\ call.fn = "_extract_filename"
    /\ call.anchor.fn = "<None>"
    /\ call.anchor.filename = "m.ecd"
    /\ call.anchor.file = "k.ecd"
    /\ call.anchor.rep = "/d/r.ecd"
    /\ call.out # NoOut
    /\ call.out.links = <<DownloadLink("a", "m.xls", "ucs")>>

(***************************************************************************)
(* The log sink (SpecLog): LogStreamer.write called by the threads that    *)
(* share one LogStreamer, and a stream() reader tailing the log file       *)
(***************************************************************************)

MaxWrites == 3

\* what a caller passes to write: message, level, source
LogInputs ==
    {[message |-> "Login successful!", level |-> "success", source |-> "rep"],
     [message |-> "Download failed", level |-> "error", source |-> "stm"]}

\* what the append in the try block of write can do: write the whole line,
\* fail in open, or fail in f.write / close after part of the line went out
AppendOutcomes == {"ok", "open fails", "write fails"}

NoWrite == [pc |-> "idle"]

\* json.dumps(entry) + '\n' of the call numbered id, whole or cut short
Line(id, in) ==
    [kind |-> "line", id |-> id, message |-> in.message, level |-> in.level,
     source |-> in.source]
Partial(id, in) == [Line(id, in) EXCEPT !.kind = "partial"]

InitLog ==
    /\ InitFiles
    /\ dl = IdleDl("REP", FALSE)
    /\ progress = NewProgress
    /\ dest = NoFile
    /\ seen = 0
    /\ runs = 0
    /\ call = NoCall
    /\ cfg = NoCfg
    /\ sink = [file |-> <<>>, lock |-> NoThread,
               w |-> [t \in Threads |-> NoWrite],
               calls |-> 0, done |-> {},
               cleared |-> FALSE, mark |-> 0,
               reader |-> [present |-> FALSE, pc |-> "off", pos |-> 0,
                           size |-> 0, start |-> 0, yielded |-> <<>>]]

\* write is called: the entry is built before the lock is asked for
LogWrite(t) ==
    /\ sink.w[t].pc = "idle"
    /\ sink.calls < MaxWrites
    /\ \E in \in LogInputs :
          sink' = [sink EXCEPT !.calls = @ + 1,
                               !.w[t] = [pc |-> "lock", id |-> sink.calls + 1,
                                         in |-> in]]

LogAcquireMutNoLock(t) ==
    /\ sink.w[t].pc = "lock"
    /\ sink' = [sink EXCEPT !.lock = t, !.w[t].pc = "append"]

\* with self._lock:
LogAcquire(t) ==
    /\ sink.w[t].pc = "lock"
    /\ sink.lock = NoThread
    /\ sink' = [sink EXCEPT !.lock = t, !.w[t].pc = "append"]

\* the try block; except Exception prints and goes on
LogAppend(t) ==
    /\ sink.w[t].pc = "append"
    /\ \E o \in AppendOutcomes :
          LET me == sink.w[t]
              file == CASE o = "ok" -> Append(sink.file, Line(me.id, me.in))
                        [] o = "write fails"
                             -> Append(sink.file, Partial(me.id, me.in))
                        [] OTHER -> sink.file
          IN sink' = [sink EXCEPT !.file = file,
                                  !.w[t] = [pc |-> "release", id |-> me.id,
                                            in |-> me.in, outcome |-> o]]

\* the with block is left and write returns None
LogRelease(t) ==
    /\ sink.w[t].pc = "release"
    /\ sink' = [sink EXCEPT !.lock = IF sink.lock = t THEN NoThread ELSE @,
                            !.w[t] = NoWrite,
                            !.done = @ \cup {[id |-> sink.w[t].id,
                                              in |-> sink.w[t].in,
                                              outcome |-> sink.w[t].outcome]}]

\* stream() is started: the file is opened for reading, without the lock,
\* and the lines it holds now are read and sent first
StreamStart ==
    /\ ~sink.reader.present
    /\ sink' = [sink EXCEPT !.reader.present = TRUE, !.reader.pc = "init"]

\* last_position = self.log_file.stat().st_size, once the first lines are
\* out: the streaming of new lines starts here (start remembers where)
StreamInit ==
    /\ sink.reader.pc = "init"
    /\ sink' = [sink EXCEPT !.reader.pos = Len(sink.file),
                            !.reader.start = Len(sink.file),
                            !.reader.pc = "check"]

\* current_size = self.log_file.stat().st_size; if current_size >
\* last_position: a turn of the loop that finds nothing new changes nothing
StreamCheck ==
    /\ sink.reader.pc = "check"
    /\ Len(sink.file) > sink.reader.pos
    /\ sink' = [sink EXCEPT !.reader.size = Len(sink.file),
                            !.reader.pc = "read"]

\* the lines f.read() returns from an offset: all there are up to the end
\* of the file
ReadFrom(file, position) ==
    [i \in 1..(IF Len(file) > position THEN Len(file) - position ELSE 0)
        |-> file[position + i].id]

\* f.seek(last_position); new_content = f.read(); its lines are yielded;
\* last_position = current_size
StreamRead ==
    /\ sink.reader.pc = "read"
    /\ sink' = [sink EXCEPT
                  !.reader.yielded = @ \o ReadFrom(sink.file, sink.reader.pos),
                  !.reader.pos = sink.reader.size,
                  !.reader.pc = "check"]

logRest == <<storeVars, dl, progress, dest, seen, runs, call, cfg>>

NextLog ==
    \/ \E t \in Threads : LogWrite(t) /\ UNCHANGED logRest
    \/ \E t \in Threads : LogAcquire(t) /\ UNCHANGED logRest
    \/ \E t \in Threads : LogAppend(t) /\ UNCHANGED logRest
    \/ \E t \in Threads : LogRelease(t) /\ UNCHANGED logRest
    \/ StreamStart /\ UNCHANGED logRest
    \/ StreamInit /\ UNCHANGED logRest
    \/ StreamCheck /\ UNCHANGED logRest
    \/ StreamRead /\ UNCHANGED logRest

SpecLog == InitLog /\ [][NextLog]_vars

\* the chunks the write call numbered id has put in the log file
ChunksOf(id) == SelectSeq(sink.file, LAMBDA c : c.id = id)

\* C26 as stated: the file holds one whole line for every write call that
\* has returned, and nothing but whole lines.
C26_OneWholeLinePerCall ==
    /\ \A d \in sink.done : ChunksOf(d.id) = <<Line(d.id, d.in)>>
    /\ \A i \in DOMAIN sink.file : sink.file[i].kind = "line"

\* C26 amended: a write call whose append succeeds adds exactly its own whole
\* line (message, level, source) at the end of the file; a call whose open
\* fails adds nothing and one whose write fails adds at most a cut line, and
\* in both cases the failure is swallowed: every call returns normally. No
\* step changes or removes what the file already holds. The appends are
\* serialized by the sink's lock: at most one thread is between acquiring
\* and releasing it, and a caller waits only for another writer inside its
\* append, never for the reader, present or not.
C26_OneLinePerSuccessfulAppend ==
    /\ []( /\ \A d \in sink.done :
                ChunksOf(d.id) = CASE d.outcome = "ok" -> <<Line(d.id, d.in)>>
                                   [] d.outcome = "write fails"
                                        -> <<Partial(d.id, d.in)>>
                                   [] OTHER -> <<>>
           /\ \A i \in DOMAIN sink.file :
                /\ \A j \in DOMAIN sink.file :
                      sink.file[i].id = sink.file[j].id => i = j
                /\ \/ \E d \in sink.done : d.id = sink.file[i].id
                   \/ \E t \in Threads : /\ sink.w[t].pc = "release"
                                         /\ sink.w[t].id = sink.file[i].id
           /\ \A t \in Threads :
                /\ sink.w[t].pc \in {"idle", "lock", "append", "release"}
                /\ sink.w[t].pc \in {"append", "release"}
                      => /\ sink.lock = t
                         /\ \A u \in Threads \ {t} :
                               sink.w[u].pc \notin {"append", "release"}
                /\ (sink.w[t].pc = "lock" /\ sink.lock # NoThread)
                      => sink.w[sink.lock].pc \in {"append", "release"}
           /\ sink.calls = Cardinality(sink.done)
                            + Cardinality({t \in Threads : sink.w[t].pc # "idle"}) )
    /\ [][ /\ Len(sink'.file) \in {Len(sink.file), Len(sink.file) + 1}
           /\ SubSeq(sink'.file, 1, Len(sink.file)) = sink.file
           /\ sink'.reader # sink.reader => sink'.file = sink.file ]_vars

\* C26 witness: with a reader present, three calls have returned: two whose
\* lines are in the file in the order of their appends, one whose open failed
C26_TwoLinesOneLost ==
    /\ sink.reader.present
    /\ Cardinality(sink.done) = 3
    /\ Len(sink.file) = 2
    /\ \E d \in sink.done : d.outcome = "open fails"
    /\ \A i \in DOMAIN sink.file : sink.file[i].kind = "line"

\* the lines written after the stream was started, in write order
WrittenSince(start) == ReadFrom(sink.file, start)

\* C38: a stream reader running beside the writers yields every line
\* written after the stream was started (after the loop took its first
\* position) exactly once and in write order:
\* at every moment what it has yielded is the first so many of those lines,
\* none twice, none left out, whatever the interleaving of the appends with
\* the reader's size check, read and position update.
C38_EveryLineOnceInOrder ==
    sink.reader.pc \in {"check", "read"}
        => \E k \in 0..Len(WrittenSince(sink.reader.start)) :
              sink.reader.yielded
                  = SubSeq(WrittenSince(sink.reader.start), 1, k)

(***************************************************************************)
(* The log sink with clear() (SpecStream, FairStream)                      *)
(***************************************************************************)

\* what the try block of clear can do: unlink and touch, or fail before the
\* file is touched (the exception is printed)
ClearOutcomes == {"ok", "fails"}

\* clear(), called once while a stream reader is running: under the lock
\* the file is unlinked and created again, empty (mark remembers how many
\* write calls had been made)
LogClear ==
    /\ sink.reader.pc \in {"check", "read"}
    /\ ~sink.cleared
    /\ sink.lock = NoThread
    /\ \E o \in ClearOutcomes :
          sink' = [sink EXCEPT !.file = IF o = "ok" THEN <<>> ELSE @,
                               !.cleared = (o = "ok"),
                               !.mark = sink.calls]

NextStream ==
    \/ NextLog
    \/ LogClear /\ UNCHANGED logRest

SpecStream == InitLog /\ [][NextStream]_vars

\* the reader loop keeps turning: time.sleep(1) and the next size check
ReaderStep == (StreamInit \/ StreamCheck \/ StreamRead) /\ UNCHANGED logRest

\* a write call that was made runs to its end
WriterStep(t) ==
    (LogAcquire(t) \/ LogAppend(t) \/ LogRelease(t)) /\ UNCHANGED logRest

FairStream ==
    /\ SpecStream
    /\ WF_vars(ReaderStep)
    /\ \A t \in Threads : WF_vars(WriterStep(t))

\* the whole line of the write call numbered id is in the log file
InFile(id) ==
    \E i \in DOMAIN sink.file :
       sink.file[i].id = id /\ sink.file[i].kind = "line"

Yielded(id) ==
    \E i \in DOMAIN sink.reader.yielded : sink.reader.yielded[i] = id

\* C39: after clear() was called while a stream reader is running, every
\* line written after the clear is eventually yielded by that reader, the
\* reader loop being scheduled fairly, however much had been streamed before
\* the clear.
C39_YieldedAfterClear ==
    \A id \in 1..MaxWrites :
       (sink.cleared /\ id > sink.mark /\ InFile(id)) ~> Yielded(id)

(***************************************************************************)
(* The history store's lock during a run (SpecRun)                         *)
(***************************************************************************)

\* C27: the lock of the history store is held only inside save, from the
\* backup copy to the end of the with block (temp write, replace, clean-up),
\* and only while the run waits for add_record or for the command line's
\* final save; the steps that issue and await HTTP requests (login, discovery,
\* a pass of the transfer) start and end with the lock free.
C27_LockNotHeldAcrossNetwork ==
    /\ [](lock # NoThread
            => /\ sop[lock].pc \in {"write", "replace", "except", "raise", "release"}
               /\ dl.pc \in {"record", "cli_save"})
    /\ [][(StartRun \/ Discover \/ Attempt)
            => (lock = NoThread /\ lock' = NoThread)]_vars

\* C27 witness: a pass of a transfer is under way after add_record saved the
\* history of an earlier link of the same run under the lock
C27_TransferAfterSave ==
    /\ dl.pc = "attempt"
    /\ Len(dl.results) > 0
    /\ acked # {}
    /\ lock = NoThread

(***************************************************************************)
(* The settings manager (SpecSettings): config/settings.py run twice side  *)
(* by side, on the same settings file, environment and calls, the two runs *)
(* differing in the password alone                                         *)
(***************************************************************************)

MaxCfgOps == 3

\* the keys of DEFAULT_SETTINGS kept in the model: the two credentials, one
\* path with an environment variable and one without
SettingKeys == {"eclaim_username", "eclaim_password", "download_dir", "history_file"}

DEFAULT_SETTINGS ==
    [k \in SettingKeys |->
        CASE k = "download_dir" -> "./downloads"
          [] k = "history_file" -> "download_history.json"
          [] OTHER -> ""]

EnvKeys == {"ECLAIM_USERNAME", "ECLAIM_PASSWORD", "DOWNLOAD_DIR"}

ENV_MAPPING ==
    [e \in EnvKeys |->
        CASE e = "ECLAIM_USERNAME" -> "eclaim_username"
          [] e = "ECLAIM_PASSWORD" -> "eclaim_password"
          [] OTHER -> "download_dir"]

\* the password of each of the two runs
Passwords == [a |-> "secret-a", b |-> "secret-b"]

\* the value a source (the settings file, the environment, a caller of set)
\* gives to a key; the password is the run's password whatever the source
ValueFrom(source, key, password) ==
    CASE key = "eclaim_password" -> password
      [] key = "eclaim_username" ->
            (CASE source = "file" -> "file-user" [] source = "env" -> "env-user"
               [] OTHER -> "new-user")
      [] OTHER ->
            (CASE source = "file" -> "/file" [] source = "env" -> "/env"
               [] OTHER -> "/new")

\* os.environ with the variables of `set` defined
Environ(set, password) ==
    [e \in set |-> ValueFrom("env", ENV_MAPPING[e], password)]

\* the settings file: absent, a JSON object, text that is not JSON, a file
\* that cannot be opened, JSON that is not an object (null, a number), bytes
\* that are not UTF-8, or the cut text a failed save left
NotAnObject(kind) == [kind |-> kind, entries |-> <<>>]
ObjectFile(entries) == [kind |-> "object", entries |-> entries]

SettingsFiles(password) ==
    {NotAnObject(k) : k \in {"absent", "not json", "unreadable", "not an object",
                             "not utf-8"}}
    \cup {ObjectFile([k \in keys |-> ValueFrom("file", k, password)]) :
            keys \in SUBSET SettingKeys}

\* dict.update
update(d, other) ==
    [k \in DOMAIN d \cup DOMAIN other |-> IF k \in DOMAIN other THEN other[k] ELSE d[k]]

\* SettingsManager.load: json.load raises JSONDecodeError on text that is not
\* JSON and open raises OSError on a file that cannot be opened, both caught;
\* decoding bytes that are not UTF-8 raises UnicodeDecodeError and
\* dict.update(None) or dict.update(5) raises TypeError, neither caught
Settings_load(m, environ) ==
    IF m.file.kind \in {"not an object", "not utf-8"}
    THEN [m EXCEPT !.settings = DEFAULT_SETTINGS, !.out = "raised"]
    ELSE LET merged == IF m.file.kind = "object"
                       THEN update(DEFAULT_SETTINGS, m.file.entries)
                       ELSE DEFAULT_SETTINGS
             env == [k \in {ENV_MAPPING[e] : e \in DOMAIN environ} |->
                        environ[CHOOSE e \in DOMAIN environ : ENV_MAPPING[e] = k]]
         IN [m EXCEPT !.settings = update(merged, env), !.out = "ok"]

\* SettingsManager.get(key)
get(m, key) == IF key \in DOMAIN m.settings THEN m.settings[key] ELSE "<None>"

\* SettingsManager.set(key, value)
set(m, key, value) ==
    [m EXCEPT !.settings = update(m.settings, [k \in {key} |-> value]),
              !.out = "none"]

SaveOutcomes == {"ok", "open fails", "write fails"}

Settings_saveMutAll(m, o) ==
    IF o = "ok" THEN [m EXCEPT !.file = ObjectFile(m.settings), !.out = "true"]
    ELSE [m EXCEPT !.out = "false"]

\* SettingsManager.save: mkdir or open fails (file untouched) or the dump
\* fails after open truncated the file; IOError gives False
Settings_save(m, o) ==
    CASE o = "ok" ->
            [m EXCEPT !.file = ObjectFile([k \in DOMAIN m.settings \ {"eclaim_password"}
                                              |-> m.settings[k]]),
                      !.out = "true"]
      [] o = "write fails" -> [m EXCEPT !.file = NotAnObject("not json"), !.out = "false"]
      [] OTHER -> [m EXCEPT !.out = "false"]

\* SettingsManager.update_credentials
update_credentials(m, username, password, o) ==
    Settings_save(set(set(m, "eclaim_username", username), "eclaim_password", password), o)

Runs == {"a", "b"}

settingsRest == <<storeVars, dl, progress, dest, seen, runs, call, sink>>

InitSettings ==
    /\ InitFiles
    /\ dl = IdleDl("REP", FALSE)
    /\ progress = NewProgress
    /\ dest = NoFile
    /\ seen = 0
    /\ runs = 0
    /\ call = NoCall
    /\ sink = NoSink
    /\ \E kind \in {f.kind : f \in SettingsFiles("")}, keys \in SUBSET SettingKeys,
          env \in SUBSET EnvKeys :
          /\ kind # "object" => keys = {}
          /\ cfg = [m |-> [r \in Runs |->
                             [pc |-> "new",
                              file |-> IF kind = "object"
                                       THEN ObjectFile([k \in keys |->
                                              ValueFrom("file", k, Passwords[r])])
                                       ELSE NotAnObject(kind),
                              settings |-> <<>>, out |-> "none"]],
                    env |-> env, ops |-> 0, last |-> "none"]

\* both runs make the call `op`, each with its own password
Both(last, op(_, _)) ==
    cfg' = [cfg EXCEPT !.m = [r \in Runs |-> op(cfg.m[r], Passwords[r])],
                       !.ops = @ + 1, !.last = last]

\* SettingsManager(settings_file): __init__ calls load; an exception of load
\* leaves no manager
Construct ==
    /\ cfg.m["a"].pc = "new"
    /\ cfg' = [cfg EXCEPT
                 !.m = [r \in Runs |->
                          LET m == Settings_load(cfg.m[r], Environ(cfg.env, Passwords[r]))
                          IN [m EXCEPT !.pc = IF m.out = "ok" THEN "ready" ELSE "dead"]],
                 !.last = "load"]

CanCall == cfg.m["a"].pc = "ready" /\ cfg.ops < MaxCfgOps

Reload ==
    /\ CanCall
    /\ Both("load", LAMBDA m, pw : Settings_load(m, Environ(cfg.env, pw)))

Set ==
    /\ CanCall
    /\ \E key \in SettingKeys :
          Both("set", LAMBDA m, pw : set(m, key, ValueFrom("set", key, pw)))

Save ==
    /\ CanCall
    /\ \E o \in SaveOutcomes : Both("save", LAMBDA m, pw : Settings_save(m, o))

UpdateCredentials ==
    /\ CanCall
    /\ \E o \in SaveOutcomes :
          Both("save", LAMBDA m, pw : update_credentials(m, "new-user", pw, o))

NextSettings ==
    \/ Construct /\ UNCHANGED settingsRest
    \/ Reload /\ UNCHANGED settingsRest
    \/ Set /\ UNCHANGED settingsRest
    \/ Save /\ UNCHANGED settingsRest
    \/ UpdateCredentials /\ UNCHANGED settingsRest

SpecSettings == InitSettings /\ [][NextSettings]_vars

\* C28: after load or reload every key with an environment variable has the
\* variable's value when the variable is set, else the settings file's value
\* when the file has the key, else the built-in default; a settings file that
\* cannot be read or is not valid is treated as absent, that is the load
\* completes and gives the environment's value or the default.
C28_Precedence ==
    cfg.last = "load"
        => LET m == cfg.m["a"]
               environ == Environ(cfg.env, Passwords["a"])
           IN /\ m.out = "ok"
              /\ \A e \in EnvKeys :
                    get(m, ENV_MAPPING[e])
                        = IF e \in cfg.env THEN environ[e]
                          ELSE IF /\ m.file.kind = "object"
                                  /\ ENV_MAPPING[e] \in DOMAIN m.file.entries
                               THEN m.file.entries[ENV_MAPPING[e]]
                               ELSE DEFAULT_SETTINGS[ENV_MAPPING[e]]

\* C29: whatever was set, loaded or reloaded before, what a save or an
\* update_credentials call writes to the settings file has no eclaim_password
\* entry and is the same in two runs that differ in the password alone: after
\* a call of save that returned True or changed the file, the file of either
\* run has no such entry and the two files are equal.
C29_PasswordNeverSaved ==
    [][(cfg'.last = "save" /\ cfg'.ops # cfg.ops)
         => \A r \in Runs :
               (cfg'.m[r].out = "true" \/ cfg'.m[r].file # cfg.m[r].file)
                  => /\ "eclaim_password" \notin DOMAIN cfg'.m[r].file.entries
                     /\ cfg'.m["a"].file = cfg'.m["b"].file]_vars

\* C29 witness: the two runs hold their different passwords in memory, from
\* update_credentials, and the save of that call has written the new user
\* name to the settings file
C29_CredentialsUpdated ==
    /\ cfg.last = "save"
    /\ \A r \in Runs :
          /\ cfg.m[r].out = "true"
          /\ get(cfg.m[r], "eclaim_password") = Passwords[r]
          /\ cfg.m[r].file.kind = "object"
          /\ cfg.m[r].file.entries["eclaim_username"] = "new-user"

(***************************************************************************)
(* The default fiscal year (SpecCall)                                      *)
(***************************************************************************)

\* C30: at every date the default fiscal year is the Gregorian year + 544 in
\* October to December and + 543 in January to September (so that October
\* 2025 to September 2026 is fiscal year 2569), and the default of the STM
\* command line's --fiscal-year and STMDownloader._current_fiscal_year both
\* give that value.
C30_FiscalYearDefault ==
    (call.fn = "current_fiscal_year" /\ call.out # NoOut)
        => LET now == call.now
               fiscal == IF now.month >= 10 THEN now.year + 544 ELSE now.year + 543
           IN /\ (now.year = 2025 /\ now.month >= 10) => fiscal = 2569
              /\ (now.year = 2026 /\ now.month <= 9) => fiscal = 2569
              /\ call.out.value = fiscal
              /\ call.out.default = fiscal

(***************************************************************************)
(* The retry loop of one link within a run (SpecRun)                       *)
(***************************************************************************)

\* C31: the retries belong to one link. The first pass of download_file is
\* made without a sleep, one sleep of 2 seconds opens each later pass and none
\* follows the last one: while the loop runs the sleeps so far are as many as
\* the passes before the current one, at most max_retries. A success in pass k
\* returns at once with k attempts and k - 1 sleeps, a failure returns after
\* max_retries + 1 attempts and max_retries sleeps. Every link starts with the
\* whole budget: download_file is entered with no attempt and no sleep counted,
\* also after a link that used all its attempts.
C31_RetriesPerLink ==
    /\ []( /\ dl.pc \in {"attempt", "except"}
                => /\ dl.attempt \in 0..max_retries
                   /\ dl.slept = dl.attempt
           /\ dl.pc = "file" => (dl.attempt = 0 /\ dl.slept = 0)
           /\ (dl.pc = "account" /\ dl.file.attempts > 0)
                => /\ dl.file.attempts \in 1..(max_retries + 1)
                   /\ dl.slept = dl.file.attempts - 1
                   /\ ~dl.file.success => dl.file.attempts = max_retries + 1 )
    /\ [][ /\ (dl.pc = "attempt" /\ dl'.pc = "account")
                => /\ dl'.file.success
                   /\ dl'.file.attempts = dl.attempt + 1
           /\ (dl.pc = "attempt" /\ dl'.pc = "attempt") => FALSE
           /\ (dl.pc = "except" /\ dl'.pc = "attempt")
                => /\ dl.attempt < max_retries
                   /\ dl'.attempt = dl.attempt + 1
                   /\ dl'.slept = dl.slept + 1
                   /\ dl'.links = dl.links
           /\ (dl.pc \in {"account", "record"} /\ dl'.pc = "file")
                => /\ dl'.links = Tail(dl.links)
                   /\ dl'.attempt = 0
                   /\ dl'.slept = 0 ]_vars

\* C31 witness: a link succeeded in its third pass, after two sleeps, right
\* after a link of the same run that failed in all its three passes
C31_ThirdPassAfterExhaustedLink ==
    /\ dl.pc = "account"
    /\ dl.file.success
    /\ dl.file.attempts = max_retries + 1
    /\ dl.slept = max_retries
    /\ Len(dl.results) > 0
    /\ dl.results[Len(dl.results)] = [success |-> FALSE, error |-> "error"]

(***************************************************************************)
(* The history document over the runs of a command line (SpecRun)          *)
(***************************************************************************)

\* the records a reader of the history file finds in it
StoredIn(f) == LoadContent(live[f]).downloads

\* C32: in runs of the downloader the history document only grows at its end.
\* A step that changes a history file is the replace of an add_record call: it
\* keeps every stored record where it was, adds the one record of the call
\* after them and sets last_run; add_record changes the file of its family
\* only, and the command line's final save rewrites what is stored. So a
\* filename found by exists once is found by exists ever after, no
\* delete_record being part of a run.
C32_AppendOnly ==
    /\ [](deleted = {} /\ \A a \in acked : InHistory(a.dtype, a.filename))
    /\ [][ \A f \in Files :
             /\ \A i \in 1..Len(StoredIn(f)) :
                   /\ i <= Len(LoadContent(live'[f]).downloads)
                   /\ LoadContent(live'[f]).downloads[i] = StoredIn(f)[i]
             /\ live'[f] # live[f]
                   => /\ sop["main"].pc = "replace"
                      /\ f = FamilyFile(sop["main"].dtype)
                      /\ live'[f].kind = "doc"
                      /\ IF sop["main"].kind = "add"
                         THEN /\ live'[f].downloads
                                    = Append(StoredIn(f), Record(sop["main"].fname))
                              /\ live'[f].last_run
                         ELSE live'[f].downloads = StoredIn(f) ]_vars

\* C32 witness: a second run has added a record behind the records that were
\* stored before it
C32_GrownOverTwoRuns ==
    /\ runs = 2
    /\ \E f \in Files :
          /\ live[f].kind = "doc"
          /\ Len(live[f].downloads) >= 3
          /\ live[f].downloads[1] = Record("f1")
          /\ live[f].last_run

(***************************************************************************)
(* The history store called by one thread, one call after the other, on   *)
(* documents as earlier calls can have left them (SpecHistory)             *)
(***************************************************************************)

\* the history files at the start: absent, or a document of up to two records
StoredDocuments ==
    {Absent} \cup {Doc(TRUE, downloads) :
                     downloads \in SeqsUpTo({Record(f) : f \in StoreFilenames}, 2)}

InitHistory ==
    /\ live \in [Files -> StoredDocuments]
    /\ backup = [f \in Files |-> Absent]
    /\ tmp = [f \in Files |-> Absent]
    /\ lock = NoThread
    /\ sop = [t \in Threads |-> IdleOp]
    /\ acked = {}
    /\ deleted = {}
    /\ ops = 0
    /\ dl = IdleDl("REP", FALSE)
    /\ progress = NewProgress
    /\ dest = NoFile
    /\ seen = 0
    /\ runs = 0
    /\ call = NoCall
    /\ sink = NoSink
    /\ cfg = NoCfg

MaxCalls == 2

NextHistory ==
    \/ ops < MaxCalls /\ StartAdd("main") /\ UNCHANGED runVars
    \/ ops < MaxCalls /\ StartDelete("main") /\ UNCHANGED runVars
    \/ ops < MaxCalls /\ StartSave("main") /\ UNCHANGED runVars
    \/ SaveStep("main") /\ UNCHANGED runVars
    \/ Return("main") /\ UNCHANGED runVars

SpecHistory == InitHistory /\ [][NextHistory]_vars

\* the records of `downloads` that have another filename, in their order
OtherRecords(downloads, filename) ==
    SelectSeq(downloads, LAMBDA r : r.filename # filename)

\* whether the family's document held the filename when the delete_record
\* call of the main thread, now answered, was made
WasStored ==
    IF sop["main"].ret = "false"
    THEN InHistory(sop["main"].dtype, sop["main"].fname)
    ELSE HasFilename(LoadContent(sop["main"].pre).downloads, sop["main"].fname)

\* C33 as stated: delete_record returns true exactly when the family's
\* document held a record of the filename, and then the filename is no longer
\* in the document.
C33_TrueIffStored ==
    (sop["main"].kind = "delete" /\ sop["main"].pc = "done")
        => /\ sop["main"].ret = "true" <=> WasStored
           /\ WasStored => ~InHistory(sop["main"].dtype, sop["main"].fname)

\* C33 amended: a delete_record call on a document without a record of the
\* filename returns false and writes nothing. On a document with such records
\* it saves the document without them and returns true: all records of the
\* filename are gone, the others are kept as they were and in their order,
\* exists is false; or its save fails and the exception leaves delete_record:
\* the live file is as it was, records of the filename included (the backup
\* can have been rewritten by then). The files of the other family are never
\* touched.
C33_DeleteRecord ==
    /\ []((sop["main"].kind = "delete" /\ sop["main"].pc = "done")
            => LET me == sop["main"]
                   f == FamilyFile(me.dtype)
               IN /\ me.ret \in {"true", "false", "raised"}
                  /\ me.ret # "false" <=> WasStored
                  /\ me.ret = "true"
                        => /\ live[f].kind = "doc"
                           /\ live[f].downloads
                                 = OtherRecords(LoadContent(me.pre).downloads, me.fname)
                           /\ ~InHistory(me.dtype, me.fname)
                  /\ me.ret = "raised" => live[f] = me.pre)
    /\ [][ /\ (sop["main"].pc = "idle" /\ sop'["main"].kind = "delete")
                => /\ (sop'["main"].pc = "done")
                         <=> ~InHistory(sop'["main"].dtype, sop'["main"].fname)
                   /\ sop'["main"].pc = "done" => sop'["main"].ret = "false"
                   /\ UNCHANGED <<live, backup, tmp>>
           /\ sop["main"].kind = "delete"
                => \A g \in Files \ {FamilyFile(sop["main"].dtype)} :
                      /\ live'[g] = live[g]
                      /\ backup'[g] = backup[g] ]_vars

\* C33 witness: delete_record returned true for a filename the document held
\* twice, and the record of the other filename is what is left
C33_BothRecordsRemoved ==
    /\ sop["main"].kind = "delete"
    /\ sop["main"].pc = "done"
    /\ sop["main"].ret = "true"
    /\ Len(LoadContent(sop["main"].pre).downloads) = 3
    /\ live[FamilyFile(sop["main"].dtype)].downloads
          = <<Record(IF sop["main"].fname = "f1" THEN "f2" ELSE "f1")>>

(***************************************************************************)
(* What an STM attempt writes (SpecCall)                                   *)
(***************************************************************************)

\* C34: a pass of the STM retry loop writes the destination file only once
\* the whole body is in memory and the HTML check has passed: a pass that
\* meets a network error or an HTTP error status, a broken response, or an
\* HTML body under 1000 bytes, and a pass on a link that lacks a required
\* parameter, leaves the destination path as it was, file or no file; any
\* other pass leaves there the body it received.
C34_StmWritesAfterCheck ==
    [][(call.fn = "download_file" /\ dl.variant = "STM" /\ dl.pc = "attempt")
         => LET o == call.outcomes[dl.attempt + 1]
                untouched == \/ dl.params # "full"
                             \/ o.kind # "body"
                             \/ (o.html /\ o.size < 1000)
            IN dest' = IF untouched THEN dest ELSE o.size]_vars

\* C34 witness: the first pass met a small HTML page, the second a network
\* error, and the file that was at the destination is still there
C34_OldFileKept ==
    /\ call.fn = "download_file"
    /\ dl.variant = "STM"
    /\ dl.params = "full"
    /\ dl.pc = "except"
    /\ dl.attempt = 1
    /\ call.outcomes[1] = [kind |-> "body", msg |-> NoError, html |-> TRUE,
                           size |-> 99]
    /\ call.outcomes[2].kind = "neterr"
    /\ dest = 1000

(***************************************************************************)
(* One record per filename (SpecRun)                                       *)
(***************************************************************************)

\* C35: the history files start without a filename recorded twice, and
\* through all runs of the command line, whatever links discovery returns
\* (lists that repeat a filename included) and whichever transfers and saves
\* fail, no history file ever holds two records of one filename.
C35_OneRecordPerFilename ==
    \A f \in Files :
        \A i, j \in 1..Len(LoadContent(live[f]).downloads) :
            live[f].downloads[i].filename = live[f].downloads[j].filename => i = j

\* C35 witness: in the first run a filename came a second time in the list,
\* after its file was fetched and recorded, and was skipped; the document
\* holds the one record
C35_RepeatedLinkSkipped ==
    /\ runs = 1
    /\ dl.history
    /\ dl.pc = "account"
    /\ dl.file.error = "skipped"
    /\ [dtype |-> dl.variant, filename |-> CurLink.filename] \in acked
    /\ Cardinality({i \in 1..Len(live[FamilyFile(dl.variant)].downloads) :
                      live[FamilyFile(dl.variant)].downloads[i].filename
                         = CurLink.filename}) = 1

(***************************************************************************)
(* The counts run returns and the progress counters (SpecRun)              *)
(***************************************************************************)

\* C36: in every counts result run returns, downloaded + skipped + errors is
\* the total, the total is the number of discovered links, and the three
\* counts are the progress counters download_all accumulated in that run,
\* whatever the error message of a failed link, the empty one included.
C36_CountsMatchProgress ==
    (dl.pc = "returned" /\ dl.ret.kind = "counts")
        => /\ dl.ret.downloaded + dl.ret.skipped + dl.ret.errors = dl.ret.total
           /\ dl.ret.total = progress.total
           /\ dl.ret.downloaded = progress.downloaded
           /\ dl.ret.skipped = progress.skipped
           /\ dl.ret.errors = progress.errors

(***************************************************************************)
(* The "skipped" sentinel of download_file (SpecCall)                      *)
(***************************************************************************)

\* C37: the result of download_file has the error "skipped", and is counted as
\* skipped by download_all and by run, exactly when download_file returned at
\* the dedup check, before any transfer; a result that comes out of the retry
\* loop, all passes failed, is not one, whatever the text of the last
\* exception.
C37_SkippedMeansDedup ==
    (call.fn = "download_file" /\ dl.pc = "account")
        => LET hit == /\ dl.file.attempts = 0
                      /\ dl.history
                      /\ InHistory(dl.variant, CurLink.filename)
           IN /\ dl.file.error = "skipped" <=> hit
              /\ IsSkipped(Kept(dl.file)) <=> hit
              /\ dl.file.attempts > 0 => ~IsSkipped(Kept(dl.file))

(***************************************************************************)
(* Statistics of a stored document (SpecCall)                              *)
(***************************************************************************)

RECURSIVE Total(_, _)
Total(counts, keys) ==
    IF keys = {} THEN 0
    ELSE LET k == CHOOSE k \in keys : TRUE
         IN counts[k] + Total(counts, keys \ {k})

\* C40: get_statistics over a stored document returns total_files equal to
\* the number of records and total_size equal to the sum of their file_size
\* values; the per-scheme counts sum to total_files and the per-file-type
\* counts sum to the number of records that have a file type (a record
\* without one is counted in no file-type bucket).
C40_StatisticsAddUp ==
    (call.fn = "get_statistics" /\ call.out # NoOut)
        => LET stored == IF call.content.kind = "doc"
                         THEN call.content.downloads ELSE <<>>
               sized == {i \in DOMAIN stored : "file_size" \in DOMAIN stored[i]}
               typed == {i \in DOMAIN stored :
                            /\ "file_type" \in DOMAIN stored[i]
                            /\ stored[i].file_type # "<None>"}
               stats == call.out.value
           IN /\ stats.total_files = Len(stored)
              /\ stats.total_size
                    = Total([i \in sized |-> stored[i].file_size], sized)
              /\ Total(stats.schemes, DOMAIN stats.schemes) = stats.total_files
              /\ Total(stats.file_types, DOMAIN stats.file_types)
                    = Cardinality(typed)
              /\ "<None>" \notin DOMAIN stats.file_types

\* C40 witness: the statistics of two records, one of them with neither a
\* file type nor a scheme nor a size: one file type counted, two schemes
C40_TwoRecordsOneUntyped ==
    /\ call.fn = "get_statistics"
    /\ call.out # NoOut
    /\ call.content.kind = "doc"
    /\ Len(call.content.downloads) = 2
    /\ DOMAIN call.content.downloads[1] = {"filename"}
    /\ DOMAIN call.content.downloads[2] = {"filename"} \cup StatKeys
    /\ call.content.downloads[2].file_type = "OP"
    /\ call.content.downloads[2].scheme = "ofc"
    /\ call.out.value.total_files = 2
    /\ call.out.value.total_size = call.content.downloads[2].file_size
    /\ call.out.value.file_types = [t \in {"OP"} |-> 1]
    /\ call.out.value.schemes = [t \in {"ucs", "ofc"} |-> 1]

====
